---- MODULE Spec2Model ----
(***************************************************************************)
(* A model of vccollections.py: the fetch of the findings of a collection's*)
(* applications and their aggregation into severity histograms, the        *)
(* compliance pages and the compliance icon of a profile, the              *)
(* normalisation of a finding into a document row, the detail section of   *)
(* the document, and the JSON, PDF and CSV files main writes.              *)
(*                                                                         *)
(* A finding is the record                                                 *)
(*   [severity, violates_policy, scan_type, fields]                        *)
(* where severity is f['finding_details']['severity'], and fields is the   *)
(* set of optional keys the record holds (a nested key such as "cwe.id"    *)
(* stands for f['finding_details']['cwe']['id']).  A Python dict is a      *)
(* function whose DOMAIN is its key set; a dict whose key order matters    *)
(* (all_findings) is a sequence of <<key, value>> pairs.                   *)
(***************************************************************************)
EXTENDS Integers, Sequences, FiniteSets, TLC

\* ------------------------------------------------------------------ bounds
MaxAggFindings == 3
MaxFindings == 2
MaxApps == 2
MaxProfiles == 2
MaxScanTypes == 4
MaxComplianceAssets == 1
MaxChartCount == 21
MaxFoldCalls == 2
MaxConcFindings == 2

\* --------------------------------------------------------------- constants
SevKeys == {"sev5", "sev4", "sev3", "sev2", "sev1", "sev0"}

KnownScanTypes == {"STATIC", "DYNAMIC", "SCA", "MANUAL"}

OptionalFields ==
    {"issue_id", "cwe", "cwe.id", "cwe.name", "file_path", "file_line_number",
     "path", "vulnerable_parameter", "cve", "cve.name", "cve.cvss",
     "component_filename", "version", "input_vector", "description"}

\* 'sev' + str(severity)
SevKey(sev) ==
    CASE sev = 0 -> "sev0"
      [] sev = 1 -> "sev1"
      [] sev = 2 -> "sev2"
      [] sev = 3 -> "sev3"
      [] sev = 4 -> "sev4"
      [] sev = 5 -> "sev5"
      [] sev = 6 -> "sev6"
      [] OTHER -> "sev?"

\* The value a raising call yields.
Raised(err) == [raised |-> TRUE, error |-> err]

\* ------------------------------------------------------------- aggregation
get_finding_severity(finding) == finding.severity

\* A variant of the sort that places an element before the elements already
\* there whose key equals its own.
RECURSIVE InsertDescBeforeEqual(_, _)
InsertDescBeforeEqual(sorted, f) ==
    IF sorted = <<>> THEN <<f>>
    ELSE IF get_finding_severity(Head(sorted)) > get_finding_severity(f)
         THEN <<Head(sorted)>> \o InsertDescBeforeEqual(Tail(sorted), f)
         ELSE <<f>> \o sorted

\* list.sort(key=get_finding_severity, reverse=True) is stable: an element is
\* placed after every element already there whose key is >= its own.
RECURSIVE InsertDesc(_, _)
InsertDesc(sorted, f) ==
    IF sorted = <<>> THEN <<f>>
    ELSE IF get_finding_severity(Head(sorted)) >= get_finding_severity(f)
         THEN <<Head(sorted)>> \o InsertDesc(Tail(sorted), f)
         ELSE <<f>> \o sorted

RECURSIVE SortLoop(_, _)
SortLoop(rest, sorted) ==
    IF rest = <<>> THEN sorted
    ELSE SortLoop(Tail(rest), InsertDesc(sorted, Head(rest)))

SortBySeverityDesc(app_findings) == SortLoop(app_findings, <<>>)

EmptyBuckets == [k \in SevKeys |-> <<>>]

\* The loop of lines 197-202 over the sorted list: a key outside the six
\* buckets raises KeyError at the append.
RECURSIVE BucketLoopNoPolicyTest(_, _, _)
BucketLoopNoPolicyTest(fl, allb, polb) ==
    IF fl = <<>> THEN [raised |-> FALSE, allb |-> allb, polb |-> polb]
    ELSE LET finding == Head(fl)
             key == SevKey(finding.severity)
         IN  IF key \notin DOMAIN allb THEN Raised("KeyError:severity")
             ELSE BucketLoopNoPolicyTest(Tail(fl),
                      [allb EXCEPT ![key] = Append(@, finding)],
                      [polb EXCEPT ![key] = Append(@, finding)])

RECURSIVE BucketLoopPolicyInTopTier(_, _, _)
BucketLoopPolicyInTopTier(fl, allb, polb) ==
    IF fl = <<>> THEN [raised |-> FALSE, allb |-> allb, polb |-> polb]
    ELSE LET finding == Head(fl)
             key == SevKey(finding.severity)
         IN  IF key \notin DOMAIN allb THEN Raised("KeyError:severity")
             ELSE BucketLoopPolicyInTopTier(Tail(fl),
                      [allb EXCEPT ![key] = Append(@, finding)],
                      IF finding.violates_policy
                      THEN [polb EXCEPT !["sev5"] = Append(@, finding)]
                      ELSE polb)

RECURSIVE BucketLoop(_, _, _)
BucketLoop(fl, allb, polb) ==
    IF fl = <<>> THEN [raised |-> FALSE, allb |-> allb, polb |-> polb]
    ELSE LET finding == Head(fl)
             key == SevKey(finding.severity)
         IN  IF key \notin DOMAIN allb THEN Raised("KeyError:severity")
             ELSE BucketLoop(Tail(fl),
                      [allb EXCEPT ![key] = Append(@, finding)],
                      IF finding.violates_policy
                      THEN [polb EXCEPT ![key] = Append(@, finding)]
                      ELSE polb)

\* The sum of a histogram's counts over the keys it holds.
RECURSIVE SumOver(_, _)
SumOver(h, keys) ==
    IF keys = {} THEN 0
    ELSE LET k == CHOOSE x \in keys : TRUE
         IN  h[k] + SumOver(h, keys \ {k})

HistogramTotal(h) == SumOver(h, DOMAIN h)

get_app_profile_summary_data(app_findings) ==
    LET sorted == SortBySeverityDesc(app_findings)
        b == BucketLoop(sorted, EmptyBuckets, EmptyBuckets)
    IN  IF b.raised THEN b
        ELSE LET allfindingsbysev == [k \in SevKeys |-> Len(b.allb[k])]
                 policyfindingsbysev == [k \in SevKeys |-> Len(b.polb[k])]
             IN  [raised |-> FALSE,
                  findings_by_severity |-> allfindingsbysev,
                  policy_findings_by_severity |-> policyfindingsbysev,
                  total_findings |-> Len(sorted),
                  total_policy_findings |-> HistogramTotal(policyfindingsbysev),
                  app_findings |-> sorted]

\* What a name of a list or of a dict entry holds during the aggregation: a
\* list of findings, or the int that len() put in its place.
ListValue(items) == [is_list |-> TRUE, items |-> items, count |-> 0]
IntValue(n) == [is_list |-> FALSE, items |-> <<>>, count |-> n]

\* The six assignments of empty lists (lines 183-188 and 190-195).
NewBuckets == [k \in SevKeys |-> ListValue(<<>>)]

\* d[key].append(finding) (lines 200, 202): KeyError when the dict has no such
\* key, AttributeError when the entry holds an int.
BucketAppend(d, key, finding) ==
    IF key \notin DOMAIN d THEN Raised("KeyError:severity")
    ELSE IF ~d[key].is_list THEN Raised("AttributeError")
    ELSE [raised |-> FALSE,
          dict |-> [d EXCEPT ![key] = ListValue(Append(d[key].items, finding))]]

\* for k in d: d[k] = len(d[k]) (lines 204-205, 208-210): TypeError when an
\* entry holds an int.
BucketLengths(d) ==
    IF \E k \in DOMAIN d : ~d[k].is_list THEN Raised("TypeError")
    ELSE [raised |-> FALSE, dict |-> [k \in DOMAIN d |-> IntValue(Len(d[k].items))]]

\* ------------------------------------------------------ the collection fold
\* dict.get(key, default)
DictGetOr(d, k, default) == IF k \in DOMAIN d THEN d[k] ELSE default

\* A variant that stores the application's count instead of adding it.
update_collection_findings_by_sev_overwrite(collection_summary, app_findings_summary) ==
    [k \in (DOMAIN collection_summary) \cup SevKeys |->
        IF k \in SevKeys
        THEN IF k = "sev5"
             THEN app_findings_summary[k]
             ELSE DictGetOr(collection_summary, k, 0) + app_findings_summary[k]
        ELSE collection_summary[k]]

update_collection_findings_by_sev(collection_summary, app_findings_summary) ==
    [k \in (DOMAIN collection_summary) \cup SevKeys |->
        IF k \in SevKeys
        THEN DictGetOr(collection_summary, k, 0) + app_findings_summary[k]
        ELSE collection_summary[k]]

\* The empty dict {}.
EmptyDict == [k \in {} |-> 0]

\* ------------------------------------------------ dicts as objects on a heap
\* A dict is an object: the heap is the sequence of the dicts created so far
\* and a reference is a dict's place in it. {} creates a dict no name refers
\* to yet.
NewDict(heap) == Len(heap) + 1

\* A variant of the fold that writes the sums into the histogram it is given
\* to add.
UpdateCollectionFindingsIntoApp(heap, collection_summary, app_findings_summary) ==
    [heap EXCEPT ![app_findings_summary] =
        update_collection_findings_by_sev(heap[collection_summary],
                                          heap[app_findings_summary])]

\* update_collection_findings_by_sev on references (lines 221-228): the six
\* assignments store into the dict collection_summary refers to, read the
\* dict app_findings_summary refers to, and the same reference is returned.
UpdateCollectionFindingsInPlace(heap, collection_summary, app_findings_summary) ==
    [heap EXCEPT ![collection_summary] =
        update_collection_findings_by_sev(heap[collection_summary],
                                          heap[app_findings_summary])]

\* ------------------------------------------- dicts that keep insertion order
OrderedKeys(d) == [i \in 1..Len(d) |-> d[i][1]]

OrderedHas(d, k) == \E i \in 1..Len(d) : d[i][1] = k

OrderedGet(d, k) == d[CHOOSE i \in 1..Len(d) : d[i][1] = k][2]

\* A variant that puts a new key before the keys already there.
OrderedSetNewKeyFirst(d, k, v) ==
    IF OrderedHas(d, k)
    THEN [i \in 1..Len(d) |-> IF d[i][1] = k THEN <<k, v>> ELSE d[i]]
    ELSE <<(<<k, v>>)>> \o d

\* d[k] = v: a key already there keeps its place.
OrderedSet(d, k, v) ==
    IF OrderedHas(d, k)
    THEN [i \in 1..Len(d) |-> IF d[i][1] = k THEN <<k, v>> ELSE d[i]]
    ELSE Append(d, <<k, v>>)

RECURSIVE OrderedPop(_, _)
OrderedPop(d, k) ==
    IF d = <<>> THEN <<>>
    ELSE IF Head(d)[1] = k THEN OrderedPop(Tail(d), k)
         ELSE <<Head(d)>> \o OrderedPop(Tail(d), k)

\* ------------------------------------------------------------ get_findings
\* The default of --scan_types.
scan_types_requested == <<"STATIC", "DYNAMIC", "SCA", "MANUAL">>

SeqHas(s, x) == \E i \in 1..Len(s) : s[i] = x

RECURSIVE SeqRemove(_, _)
\* list.remove(x): the first occurrence.
SeqRemove(s, x) ==
    IF s = <<>> THEN <<>>
    ELSE IF Head(s) = x THEN Tail(s)
         ELSE <<Head(s)>> \o SeqRemove(Tail(s), x)

\* Lines 238-242 for any selection: sca, and the copy the SCA entry is
\* removed from.
ScaSelected(requested) == SeqHas(requested, "SCA")

ScanTypesToGet(requested) ==
    IF ScaSelected(requested) THEN SeqRemove(requested, "SCA") ELSE requested

sca == ScaSelected(scan_types_requested)

scan_types_to_get == ScanTypesToGet(scan_types_requested)

\* Lines 243-246: the request parameters, with and without --policy (the
\* assignment of {"violates_policy": True} is commented out).
FetchParams(affects_policy) == IF affects_policy THEN EmptyDict ELSE EmptyDict

\* The platform's filter on a list of findings: request parameters that hold
\* violates_policy keep the findings with that value.
FilterByParams(findings, params) ==
    IF "violates_policy" \in DOMAIN params
    THEN LET Kept(f) == f.violates_policy = params["violates_policy"]
         IN  SelectSeq(findings, Kept)
    ELSE findings

\* Findings().get_findings(app, scan_types, ...): what the platform answers.
\* A response is data of the platform: `platform` holds, per application, the
\* answer to the request for the other scan types and the answer to the
\* request for SCA alone.
\* The scan types of a request are the list that ','.join writes (the empty
\* list is the empty string, which names no scan type and filters nothing).
\* Of the four scan types a request can name, the platform answers the
\* findings of those it names.
FindingsApi(platform, app, types, params) ==
    LET held == IF types = <<"SCA">> THEN platform[app].sca ELSE platform[app].findings
        Named(f) ==
            types = <<>> \/ SeqHas(types, f.scan_type) \/ f.scan_type \notin KnownScanTypes
    IN  FilterByParams(SelectSeq(held, Named), params)

\* The requests one iteration of the loop issues (lines 250-253): the SCA
\* call passes no request parameters.
FetchRequests(requested, affects_policy) ==
    <<[scan_type |-> ScanTypesToGet(requested), params |-> FetchParams(affects_policy)]>>
    \o (IF ScaSelected(requested)
        THEN <<[scan_type |-> <<"SCA">>, params |-> EmptyDict]>>
        ELSE <<>>)

\* What one iteration of the loop feeds to the aggregation (lines 248-255),
\* for any selection of scan types and either value of --policy.
FetchedFindingsFor(platform, app, requested, affects_policy) ==
    LET this_app_findings ==
            FindingsApi(platform, app, ScanTypesToGet(requested),
                        FetchParams(affects_policy))
        this_app_SCA_findings ==
            IF ScaSelected(requested)
            THEN FindingsApi(platform, app, <<"SCA">>, EmptyDict)
            ELSE <<>>
    IN  IF Len(this_app_SCA_findings) > 0
        THEN this_app_findings \o this_app_SCA_findings
        ELSE this_app_findings

\* The same with the default selection and without --policy.
FetchedFindings(platform, app) ==
    FetchedFindingsFor(platform, app, scan_types_requested, FALSE)

\* The state get_findings builds before its loop (lines 235-237).
GetFindingsStart ==
    [raised |-> FALSE, error |-> "",
     collection_all_findings_summary |-> EmptyDict,
     collection_policy_summary |-> EmptyDict,
     all_findings |-> <<>>]

\* Findings().get_findings raises when the platform cannot be asked for the
\* application's findings.
FetchRaises(platform, app) == "fails" \in DOMAIN platform[app]

\* The aggregation and the fold of an iteration (lines 256-259).
GetFindingsFold(st, platform, app) ==
    LET this_app_findings == get_app_profile_summary_data(FetchedFindings(platform, app))
    IN  IF this_app_findings.raised
        THEN [st EXCEPT !.raised = TRUE, !.error = this_app_findings.error]
        ELSE [st EXCEPT
                 !.collection_all_findings_summary =
                     update_collection_findings_by_sev(@,
                         this_app_findings.findings_by_severity),
                 !.collection_policy_summary =
                     update_collection_findings_by_sev(@,
                         this_app_findings.policy_findings_by_severity),
                 !.all_findings = OrderedSet(@, app, this_app_findings)]

\* A variant of the loop body that goes on to the next application when the
\* fetch fails.
GetFindingsStepSkipFailed(st, platform, app) ==
    IF FetchRaises(platform, app) THEN st
    ELSE GetFindingsFold(st, platform, app)

\* One iteration of the loop (lines 247-259): nothing catches what the fetch
\* raises.
GetFindingsStep(st, platform, app) ==
    IF FetchRaises(platform, app)
    THEN [st EXCEPT !.raised = TRUE, !.error = "FetchError"]
    ELSE GetFindingsFold(st, platform, app)

\* After the loop (lines 261-263).
GetFindingsEnd(st) ==
    [st EXCEPT !.all_findings =
        OrderedSet(OrderedSet(@, "collection_summary", st.collection_all_findings_summary),
                   "collection_policy_summary", st.collection_policy_summary)]

RECURSIVE GetFindingsLoop(_, _, _)
GetFindingsLoop(st, platform, apps) ==
    IF apps = <<>> \/ st.raised THEN st
    ELSE GetFindingsLoop(GetFindingsStep(st, platform, Head(apps)), platform, Tail(apps))

\* get_findings(apps, scan_types_requested, affects_policy) as a function of
\* the application list and the platform's data.
get_findings(platform, apps) ==
    LET st == GetFindingsLoop(GetFindingsStart, platform, apps)
    IN  IF st.raised THEN st ELSE GetFindingsEnd(st)

\* ------------------------------------------------------------ document rows
\* The module's severity mapping (lines 68-75); a key outside it is a KeyError.
severity ==
    [s \in 0..5 |->
        CASE s = 5 -> "Very High"
          [] s = 4 -> "High"
          [] s = 3 -> "Medium"
          [] s = 2 -> "Low"
          [] s = 1 -> "Very Low"
          [] OTHER -> "Informational"]

\* str.capitalize() on the status and resolution texts the platform sends
\* and on a scan type.
capitalize(text) ==
    CASE text = "OPEN" -> "Open"
      [] text = "STATIC" -> "Static"
      [] text = "DYNAMIC" -> "Dynamic"
      [] text = "SCA" -> "Sca"
      [] text = "MANUAL" -> "Manual"
      [] text = "UNKNOWN" -> "Unknown"
      [] text = "CLOSED" -> "Closed"
      [] text = "UNRESOLVED" -> "Unresolved"
      [] text = "POTENTIAL_FALSE_POSITIVE" -> "Potential_false_positive"
      [] OTHER -> text

\* f['finding_status'], which every record holds.
finding_status == [status |-> "OPEN", resolution |-> "UNRESOLVED"]

\* d.get(key, ''): the value of a key the record holds is written as the key.
FieldOrEmpty(f, key) == IF key \in f.fields THEN key ELSE ""

\* d.get(outer, {}).get(inner, '')
NestedOrEmpty(f, outer, inner) ==
    IF outer \in f.fields /\ inner \in f.fields THEN inner ELSE ""

\* The first of `keys` (in the order the row reads them with d[key]) that the
\* record lacks, or "" when it holds them all.
RECURSIVE FirstMissing(_, _)
FirstMissing(f, keys) ==
    IF keys = <<>> THEN ""
    ELSE IF Head(keys) \notin f.fields THEN Head(keys)
         ELSE FirstMissing(f, Tail(keys))

\* A row whose cells are read in order: the severity label, then the keys
\* read with d[key]; the first failing read raises KeyError.
RowOrRaise(f, required, cells) ==
    IF f.severity \notin DOMAIN severity THEN Raised("KeyError:severity_label")
    ELSE IF FirstMissing(f, required) # "" THEN Raised("KeyError:" \o FirstMissing(f, required))
         ELSE [raised |-> FALSE, row |-> cells]

static_findings_data_row(f) ==
    RowOrRaise(f, <<"cwe", "cwe.id", "cwe.name">>,
        <<FieldOrEmpty(f, "issue_id"),
          DictGetOr(severity, f.severity, ""),
          "cwe.id",
          "cwe.name",
          FieldOrEmpty(f, "file_path"),
          FieldOrEmpty(f, "file_line_number"),
          capitalize(finding_status.status),
          capitalize(finding_status.resolution)>>)

dyanmic_findings_data_row(f) ==
    RowOrRaise(f, <<"cwe", "cwe.id", "cwe.name">>,
        <<FieldOrEmpty(f, "issue_id"),
          DictGetOr(severity, f.severity, ""),
          "cwe.id",
          "cwe.name",
          FieldOrEmpty(f, "path"),
          FieldOrEmpty(f, "vulnerable_parameter"),
          capitalize(finding_status.status),
          capitalize(finding_status.resolution)>>)

sca_findings_data_row(f) ==
    IF FirstMissing(f, <<"cve", "cve.name", "cve.cvss">>) # ""
    THEN Raised("KeyError:" \o FirstMissing(f, <<"cve", "cve.name", "cve.cvss">>))
    ELSE RowOrRaise(f, <<>>,
        <<NestedOrEmpty(f, "cwe", "cwe.id"),
          NestedOrEmpty(f, "cwe", "cwe.name"),
          "cve.name",
          "cve.cvss",
          DictGetOr(severity, f.severity, ""),
          FieldOrEmpty(f, "component_filename"),
          FieldOrEmpty(f, "version"),
          capitalize(finding_status.status),
          capitalize(finding_status.resolution)>>)

manual_findings_data_row(f) ==
    RowOrRaise(f, <<"cwe", "cwe.id", "cwe.name", "description">>,
        <<FieldOrEmpty(f, "issue_id"),
          DictGetOr(severity, f.severity, ""),
          "cwe.id",
          "cwe.name",
          FieldOrEmpty(f, "input_vector"),
          "description",
          capitalize(finding_status.status),
          capitalize(finding_status.resolution)>>)

\* ------------------------------------------------- the detail section (PDF)
scan_type_names ==
    [t \in KnownScanTypes |->
        CASE t = "STATIC" -> "Static"
          [] t = "DYNAMIC" -> "Dynamic"
          [] t = "SCA" -> "Software Composition Analysis"
          [] OTHER -> "Manual Penetration Testing"]

\* A variant of the match of lines 811-819 whose unmatched case builds a
\* static row.
DataRowForDefaultStatic(f) ==
    CASE f.scan_type = "STATIC" -> static_findings_data_row(f)
      [] f.scan_type = "DYNAMIC" -> dyanmic_findings_data_row(f)
      [] f.scan_type = "SCA" -> sca_findings_data_row(f)
      [] f.scan_type = "MANUAL" -> manual_findings_data_row(f)
      [] OTHER -> static_findings_data_row(f)

\* The match of lines 808-819: data_row stays [] for any other scan type.
DataRowFor(f) ==
    CASE f.scan_type = "STATIC" -> static_findings_data_row(f)
      [] f.scan_type = "DYNAMIC" -> dyanmic_findings_data_row(f)
      [] f.scan_type = "SCA" -> sca_findings_data_row(f)
      [] f.scan_type = "MANUAL" -> manual_findings_data_row(f)
      [] OTHER -> [raised |-> FALSE, row |-> <<>>]

\* The first loop of profile_details_section (lines 806-821).
RECURSIVE DetailRowsLoop(_, _)
DetailRowsLoop(findings, findingsTableArray) ==
    IF findings = <<>> THEN [raised |-> FALSE, tables |-> findingsTableArray]
    ELSE LET f == Head(findings)
             scan_type == f.scan_type
             arr == IF OrderedHas(findingsTableArray, scan_type)
                    THEN findingsTableArray
                    ELSE OrderedSet(findingsTableArray, scan_type, <<>>)
             data_row == DataRowFor(f)
         IN  IF data_row.raised THEN data_row
             ELSE DetailRowsLoop(Tail(findings),
                      IF Len(data_row.row) > 0
                      THEN OrderedSet(arr, scan_type,
                               Append(OrderedGet(arr, scan_type), data_row.row))
                      ELSE arr)

findings_table_generation(findingTableData, scan_type) ==
    IF scan_type \notin DOMAIN scan_type_names
    THEN Raised("KeyError:scan_type_names")
    ELSE [raised |-> FALSE,
          table |-> [scan_type |-> scan_type,
                     title |-> "Detailed " \o scan_type_names[scan_type] \o " Findings",
                     rows |-> findingTableData]]

\* The second loop of profile_details_section (lines 822-826).
RECURSIVE DetailTablesLoop(_, _)
DetailTablesLoop(findingsTableArray, story) ==
    IF findingsTableArray = <<>> THEN [raised |-> FALSE, story |-> story]
    ELSE LET scan_type == Head(findingsTableArray)[1]
             rows == Head(findingsTableArray)[2]
         IN  IF Len(rows) > 1
             THEN LET findingTable == findings_table_generation(rows, scan_type)
                  IN  IF findingTable.raised THEN findingTable
                      ELSE DetailTablesLoop(Tail(findingsTableArray),
                               Append(story, findingTable.table))
             ELSE DetailTablesLoop(Tail(findingsTableArray), story)

\* profile_details_section(Story, profile): the tables it appends to Story.
profile_details_section(profile) ==
    LET findings == profile.app_findings
    IN  IF Len(findings) > 0
        THEN LET rows == DetailRowsLoop(findings, <<>>)
             IN  IF rows.raised THEN rows
                 ELSE DetailTablesLoop(rows.tables, <<>>)
        ELSE [raised |-> FALSE, story |-> <<>>]

\* ------------------------------------------------------ the compliance icon
not_assess_icon == "resources/notassessed.png"
pass_icon == "resources/pass.png"
conditional_icon == "resources/conditional.png"
fail_icon == "resources/fail.png"

\* None, as the value of last_completed_scan_date.
None == "None"

\* A variant that looks at the rules before the scan requirements.
profile_summary_icon_rules_first(asset_attributes) ==
    IF asset_attributes.last_completed_scan_date = None THEN not_assess_icon
    ELSE IF asset_attributes.policy_passed_rules THEN pass_icon
    ELSE IF asset_attributes.policy_passed_scan_requirements
         THEN IF asset_attributes.policy_in_grace_period THEN conditional_icon
              ELSE fail_icon
         ELSE fail_icon

\* The icon profile_summary_section chooses (lines 754-767).
profile_summary_icon(asset_attributes) ==
    IF asset_attributes.last_completed_scan_date = None THEN not_assess_icon
    ELSE IF asset_attributes.policy_passed_scan_requirements
         THEN IF asset_attributes.policy_passed_rules THEN pass_icon
              ELSE IF asset_attributes.policy_in_grace_period THEN conditional_icon
              ELSE fail_icon
         ELSE fail_icon

\* ------------------------------------------------------------ the CSV file
header_fields ==
    <<"Profile Name", "Flaw Id", "Scan Type", "Severity", "CWE Id", "CWE Name",
      "File Path/Name", "Line Number", "Path", "Vulnerable Parameter", "CVE #",
      "CVE Name", "SCA Component Name", "SCA Version", "Input Vector",
      "MPT  Description", "Status", "Resolution">>

\* The data_row of lines 1195-1214: every optional field is read with .get.
csv_data_row(profileData, ap) ==
    <<profileData["asset_info"].name,
      FieldOrEmpty(ap, "issue_id"),
      capitalize(ap.scan_type),
      severity[ap.severity],
      NestedOrEmpty(ap, "cwe", "cwe.id"),
      NestedOrEmpty(ap, "cwe", "cwe.name"),
      FieldOrEmpty(ap, "file_path"),
      FieldOrEmpty(ap, "file_line_number"),
      FieldOrEmpty(ap, "path"),
      FieldOrEmpty(ap, "vulnerable_parameter"),
      NestedOrEmpty(ap, "cve", "cve.id"),
      NestedOrEmpty(ap, "cve", "cve.name"),
      FieldOrEmpty(ap, "component_filename"),
      FieldOrEmpty(ap, "version"),
      FieldOrEmpty(ap, "input_vector"),
      FieldOrEmpty(ap, "description"),
      capitalize(finding_status.status),
      capitalize(finding_status.resolution)>>

\* A variant of the inner loop that writes a row only for the scan types the
\* document has a table for.
CsvProfileRowsKnownOnly(profileData) ==
    LET Known(ap) == ap.scan_type \in KnownScanTypes
        app_findings == SelectSeq(profileData.app_findings, Known)
    IN  [i \in 1..Len(app_findings) |-> csv_data_row(profileData, app_findings[i])]

\* The inner loop of lines 1194-1215: a row for every finding of the profile.
CsvProfileRows(profileData) ==
    LET app_findings == profileData.app_findings
    IN  [i \in 1..Len(app_findings) |-> csv_data_row(profileData, app_findings[i])]

\* The outer loop of lines 1190-1215 over the keys of findings_list.
RECURSIVE CsvDataRows(_)
CsvDataRows(findings_list) ==
    IF findings_list = <<>> THEN <<>>
    ELSE LET profile == Head(findings_list)[1]
             profileData == Head(findings_list)[2]
         IN  (IF profile # "collection_summary" THEN CsvProfileRows(profileData)
              ELSE <<>>)
             \o CsvDataRows(Tail(findings_list))

\* write_csv_report: the header row, then the data rows.
write_csv_report(findings_list) ==
    [header |-> header_fields, data_rows |-> CsvDataRows(findings_list)]

\* ---------------------------------------------------- the compliance pages
\* compliance_summary_pie_chart (lines 437-443 and 470-475): the four counts
\* it reads and their sum; every label divides by the sum.
\* get_compliance_percent_string (lines 494-495): (current / total) * 100 is a
\* true division, so total = 0 raises ZeroDivisionError whatever current is.
\* The float percentage is kept as the fraction <<current * 100, total>>.
get_compliance_percent_string(current, total) ==
    IF total = 0 THEN Raised("ZeroDivisionError")
    ELSE [raised |-> FALSE, percent |-> <<current * 100, total>>]

compliance_summary_pie_chart(compliance_overview) ==
    LET fail == compliance_overview["not_passing_policy"]
        conditional == compliance_overview["conditionally_passing_policy"]
        passing == compliance_overview["passing_policy"]
        not_assess == compliance_overview["not_assessed"]
        compliance_data == <<fail, conditional, passing, not_assess>>
        total_assets == fail + conditional + passing + not_assess
        itemLabels == <<get_compliance_percent_string(fail, total_assets),
                        get_compliance_percent_string(conditional, total_assets),
                        get_compliance_percent_string(passing, total_assets),
                        get_compliance_percent_string(not_assess, total_assets)>>
    IN  IF \E i \in 1..4 : itemLabels[i].raised
        THEN itemLabels[CHOOSE i \in 1..4 : itemLabels[i].raised
                                          /\ \A j \in 1..(i - 1) : ~itemLabels[j].raised]
        ELSE [raised |-> FALSE,
              compliance_data |-> compliance_data,
              total_assets |-> total_assets,
              itemLabels |-> [i \in 1..4 |-> itemLabels[i].percent]]

\* math.ceil(x / multipleOf) for integers, multipleOf not 0.
ceil(x, multipleOf) ==
    IF multipleOf > 0 THEN -((-x) \div multipleOf) ELSE -(x \div (-multipleOf))

\* roundup (lines 111-116) without its test for x == 0.
roundupDividesAlways(x, multipleOf) ==
    IF multipleOf = 0 THEN Raised("ZeroDivisionError")
    ELSE [raised |-> FALSE, value |-> ceil(x, multipleOf) * multipleOf]

\* roundup (lines 111-116): int(x) leaves an integer as it is; 0 is returned
\* before anything is divided; x / multipleOf raises when multipleOf is 0.
roundup(x, multipleOf) ==
    IF x = 0 THEN [raised |-> FALSE, value |-> 0]
    ELSE IF multipleOf = 0 THEN Raised("ZeroDivisionError")
    ELSE [raised |-> FALSE, value |-> ceil(x, multipleOf) * multipleOf]

\* max(row) of Python, then max([new_max_value, max_value]) (lines 530-532).
RECURSIVE max(_, _)
max(row, max_value) ==
    IF row = <<>> THEN max_value
    ELSE max(Tail(row), IF Head(row) > max_value THEN Head(row) ELSE max_value)

\* findings_summary_chart reads the six tiers with [] (lines 500-509) and
\* computes the value axis (lines 528-542). roundup(max_value, 10) is a
\* multiple of 10, so the float roundup(max_value, 10) / 5 is a whole number.
findings_summary_chart(findingsbysev) ==
    IF "sev5" \notin DOMAIN findingsbysev THEN Raised("KeyError:sev5")
    ELSE IF ~(SevKeys \subseteq DOMAIN findingsbysev) THEN Raised("KeyError:sev")
    ELSE LET openFindingsData ==
                 <<findingsbysev["sev5"], findingsbysev["sev4"], findingsbysev["sev3"],
                   findingsbysev["sev2"], findingsbysev["sev1"], findingsbysev["sev0"]>>
             max_value == max(openFindingsData, 0)
             tens == roundup(max_value, 10)
             step_interval == tens.value \div 5
             steps == roundup(max_value, step_interval)
             upper_bound == steps.value + 35
         IN  IF tens.raised THEN tens
             ELSE IF steps.raised THEN steps
             ELSE [raised |-> FALSE,
                   openFindingsData |-> openFindingsData,
                   valueMin |-> 0,
                   valueMax |-> IF upper_bound = 0 THEN 100 ELSE upper_bound,
                   valueStep |-> IF step_interval = 0 THEN 10 ELSE step_interval]

\* The charts of executive_summary_page (lines 425-426): the pie chart first.
executive_summary_page(compliance_overview, policyfindingsbysev) ==
    LET complianceSummaryPieChart == compliance_summary_pie_chart(compliance_overview)
        openFindingsPolicyTable == findings_summary_chart(policyfindingsbysev)
    IN  IF complianceSummaryPieChart.raised THEN complianceSummaryPieChart
        ELSE IF openFindingsPolicyTable.raised THEN openFindingsPolicyTable
        ELSE [raised |-> FALSE,
              pie |-> complianceSummaryPieChart,
              chart |-> openFindingsPolicyTable]

\* datetime.strptime(..., '%Y-%m-%dT%H:%M:%S.%f%z') then strftime('%m-%d-%Y
\* %H:%M') on the scan date the model uses.
ScanDateText(scan_date) ==
    IF scan_date = "2024-05-01T10:00:00.000Z" THEN "05-01-2024 10:00" ELSE scan_date

\* One row of profile_summary_table (lines 673-727).
ProfileSummaryRow(asset) ==
    [assetName |-> asset.name,
     rules_text |-> IF asset.attributes.policy_passed_rules THEN "Passed"
                    ELSE IF asset.attributes.policy_in_grace_period
                         THEN "Within Grace Period"
                         ELSE "Did Not Pass",
     scan_text |-> IF asset.attributes.policy_passed_scan_requirements THEN "Passed"
                   ELSE "Did Not Pass",
     date_text |-> IF asset.attributes.last_completed_scan_date # None
                   THEN ScanDateText(asset.attributes.last_completed_scan_date)
                   ELSE "Not Scanned"]

\* profile_summary_table(compliance_type, assets): the assets whose
\* attributes.policies[0].policy_compliance_status is compliance_type.
RECURSIVE profile_summary_table(_, _)
profile_summary_table(compliance_type, assetList) ==
    IF assetList = <<>> THEN <<>>
    ELSE (IF Head(assetList).policy_compliance_status = compliance_type
             \/ compliance_type = None
          THEN <<ProfileSummaryRow(Head(assetList))>>
          ELSE <<>>)
         \o profile_summary_table(compliance_type, Tail(assetList))

asset_policy_evaluation_section(compliance_type, assetList) ==
    <<[compliance_type |-> compliance_type,
       table |-> profile_summary_table(compliance_type, assetList)]>>

\* asset_policy_evaluation_page (lines 592-623): a section for every count of
\* the overview that is > 0.
asset_policy_evaluation_page(compliance_overview, assetList) ==
    LET not_passed == compliance_overview["not_passing_policy"]
        conditional == compliance_overview["conditionally_passing_policy"]
        passed == compliance_overview["passing_policy"]
        not_assessed == compliance_overview["not_assessed"]
    IN  [counts |-> <<not_passed, conditional, passed, not_assessed>>,
         sections |->
             (IF not_passed > 0
              THEN asset_policy_evaluation_section("DID_NOT_PASS", assetList) ELSE <<>>)
             \o (IF conditional > 0
                 THEN asset_policy_evaluation_section("CONDITIONAL_PASS", assetList)
                 ELSE <<>>)
             \o (IF passed > 0
                 THEN asset_policy_evaluation_section("PASSED", assetList) ELSE <<>>)
             \o (IF not_assessed > 0
                 THEN asset_policy_evaluation_section("NOT_ASSESSED", assetList)
                 ELSE <<>>)]

\* profile_summary_section(Story, profile) for the profile under key
\* `profile`: the icon, the name, the one-row table and the chart.
profile_summary_section(profile, profileData) ==
    LET asset_info == profileData["asset_info"]
    IN  [profile |-> profile,
         icon |-> profile_summary_icon(asset_info.attributes),
         profileName |-> asset_info.name,
         summary_table |-> profile_summary_table(None, <<asset_info>>),
         findings_summary_table |-> findings_summary_chart(profileData.findings_by_severity)]

\* ------------------------------------------------------------------- state
VARIABLES
    pc,               \* the position of the run
    assets,           \* Collections().get_assets(...): the collection's assets
    platform,         \* what Findings().get_findings answers, per application
    idx,              \* get_findings: the index of the application in turn
    gf,               \* get_findings: its two summaries and all_findings
    collection_info,  \* what get_collection_information returns
    profile_idx,      \* profile_pages: the index of the profile in turn
    Story,            \* the detail tables appended to the document
    ProfileSummaries, \* the profile summary sections appended to the document
    error,            \* the exception that ended the run, "" when none
    agg_in,           \* the argument of get_app_profile_summary_data
    agg_out,          \* its result
    row_in,           \* the finding handed to a row function
    row_out,          \* the row function's result
    profiles,         \* the attributes of the assets whose profile is drawn
    icons,            \* the icon chosen for each profile drawn so far
    format,           \* args.format: the formats asked for
    collection,       \* Collections().get(collguid): the collection's record
    artifacts,        \* the files written so far, in the order written
    scan_types,       \* args.scan_types: the caller's list of scan types
    affects_policy,   \* args.policy
    fetch_out,        \* what one iteration of get_findings requested and fed
    compliance_out,   \* what the compliance pages read from the overview
    chart_in,         \* the arguments of roundup or of findings_summary_chart
    chart_out,        \* the result of that call
    heap,             \* the dicts created so far, as objects
    fold,             \* get_findings: the references its names hold
    fold_returned,    \* what each call of get_findings returned, as references
    conc_in,          \* the findings lists handed to the concurrent aggregations
    calls             \* get_app_profile_summary_data: each call's locals

vars == <<pc, assets, platform, idx, gf, collection_info, profile_idx, Story,
          ProfileSummaries, error, agg_in, agg_out, row_in, row_out, profiles, icons,
          format, collection, artifacts, scan_types, affects_policy, fetch_out,
          compliance_out, chart_in, chart_out, heap, fold, fold_returned,
          conc_in, calls>>

reportVars == <<assets, platform, idx, gf, collection_info, profile_idx, Story,
                ProfileSummaries, error,
                format, collection, artifacts, compliance_out>>
inputVars == <<assets, platform, format, collection>>
aggVars == <<agg_in, agg_out>>
rowVars == <<row_in, row_out>>
iconVars == <<profiles, icons>>
fetchVars == <<scan_types, affects_policy, fetch_out>>
chartVars == <<chart_in, chart_out>>
foldVars == <<heap, fold, fold_returned>>
concVars == <<conc_in, calls>>
unitVars == <<chartVars, foldVars, concVars>>
pureVars == <<aggVars, rowVars, iconVars, fetchVars, unitVars>>

\* ------------------------------------------------------------------ inputs
BoundedSeq(S, n) == UNION {[1..k -> S] : k \in 0..n}

Apps == {"app-a", "app-b"}

\* The findings the platform answers for the scan types other than SCA: one
\* that violates policy, one of a scan type the program does not know, one
\* whose severity is outside 0..5, one that holds no optional field.
PlatformFindings ==
    {[severity |-> 5, violates_policy |-> TRUE, scan_type |-> "STATIC",
      fields |-> OptionalFields],
     [severity |-> 3, violates_policy |-> TRUE, scan_type |-> "UNKNOWN",
      fields |-> OptionalFields],
     [severity |-> 6, violates_policy |-> FALSE, scan_type |-> "STATIC",
      fields |-> OptionalFields],
     [severity |-> 0, violates_policy |-> FALSE, scan_type |-> "DYNAMIC",
      fields |-> {}]}

\* The findings the platform answers for SCA.
PlatformScaFindings ==
    {[severity |-> 3, violates_policy |-> FALSE, scan_type |-> "SCA",
      fields |-> OptionalFields]}

Responses ==
    {[findings |-> a, sca |-> b] :
        a \in BoundedSeq(PlatformFindings, MaxFindings),
        b \in BoundedSeq(PlatformScaFindings, MaxFindings)}

NoFindings == [findings |-> <<>>, sca |-> <<>>]

\* The platform does not answer for the application.
FetchFails == [findings |-> <<>>, sca |-> <<>>, fails |-> TRUE]

\* The compliance states of the platform.
ComplianceStates == {"DID_NOT_PASS", "CONDITIONAL_PASS", "PASSED", "NOT_ASSESSED"}

\* An asset name differs from the guid.
AssetName(guid) == "Application " \o guid

\* An asset of the collection; policy_compliance_status stands for
\* asset['attributes']['policies'][0]['policy_compliance_status'].
Asset(guid, attributes, status) ==
    [guid |-> guid, name |-> AssetName(guid), attributes |-> attributes,
     policy_compliance_status |-> status]

\* A scanned asset that passes its policy.
AssetOf(guid) ==
    Asset(guid,
          [last_completed_scan_date |-> "2024-05-01T10:00:00.000Z",
           policy_passed_scan_requirements |-> TRUE,
           policy_passed_rules |-> TRUE,
           policy_in_grace_period |-> FALSE],
          "PASSED")

\* The findings get_app_profile_summary_data is checked on.
AggFindings ==
    [severity : 0..6, violates_policy : BOOLEAN, scan_type : {"STATIC"},
     fields : {OptionalFields}]

AggFinding(sev, policy) ==
    [severity |-> sev, violates_policy |-> policy, scan_type |-> "STATIC",
     fields |-> OptionalFields]

\* Ten findings of severities 5,5,4,3,3,3,2,1,0,0, four of which (of
\* severities 5, 3, 3 and 2) violate policy.
ScenarioFindings ==
    <<AggFinding(5, TRUE), AggFinding(5, FALSE), AggFinding(4, FALSE),
      AggFinding(3, TRUE), AggFinding(3, FALSE), AggFinding(3, TRUE),
      AggFinding(2, TRUE), AggFinding(1, FALSE), AggFinding(0, FALSE),
      AggFinding(0, FALSE)>>

\* A record holds a nested key only with the key of the dict it is in.
WellNested(fields) ==
    /\ ("cwe.id" \in fields \/ "cwe.name" \in fields) => "cwe" \in fields
    /\ ("cve.name" \in fields \/ "cve.cvss" \in fields) => "cve" \in fields

RowFindings ==
    {[severity |-> 3, violates_policy |-> FALSE, scan_type |-> t, fields |-> fs] :
        t \in KnownScanTypes, fs \in {x \in SUBSET OptionalFields : WellNested(x)}}

AssetAttributes ==
    [last_completed_scan_date : {None, "2024-05-01T10:00:00.000Z"},
     policy_passed_scan_requirements : BOOLEAN,
     policy_passed_rules : BOOLEAN,
     policy_in_grace_period : BOOLEAN]

NotCalled == [raised |-> FALSE, called |-> FALSE]

\* The four counts of collection_info['compliance_overview'].
ComplianceOverview(fail, conditional, passing, not_assess) ==
    [not_passing_policy |-> fail,
     conditionally_passing_policy |-> conditional,
     passing_policy |-> passing,
     not_assessed |-> not_assess]

\* The record of a collection whose n assets the platform reports as passing.
CollectionOf(n) == [compliance_overview |-> ComplianceOverview(0, 0, n, 0)]

\* The default of --format.
DefaultFormat == <<"pdf">>

\* Severity histograms for the chart: one tier holds any count up to
\* MaxChartCount, each other tier holds 0 or 1.
ChartHistograms ==
    {[k \in SevKeys |-> IF k = top THEN c ELSE IF k \in ones THEN 1 ELSE 0] :
        top \in SevKeys, c \in 0..MaxChartCount, ones \in SUBSET SevKeys}

\* Arguments of roundup: a count and a multiple, 0 included in both.
RoundupArguments == [x : 0..MaxChartCount, multipleOf : 0..MaxChartCount]

\* -------------------------------------------------------------------- Init
ReportIdle ==
    /\ assets = <<>>
    /\ platform = [a \in Apps |-> NoFindings]
    /\ idx = 1
    /\ gf = GetFindingsStart
    /\ collection_info = NotCalled
    /\ profile_idx = 1
    /\ Story = <<>>
    /\ ProfileSummaries = <<>>
    /\ error = ""
    /\ format = DefaultFormat
    /\ collection = CollectionOf(0)
    /\ artifacts = <<>>
    /\ compliance_out = NotCalled

AggIdle == agg_in = <<>> /\ agg_out = NotCalled
RowIdle == row_in = NotCalled /\ row_out = NotCalled
IconIdle == profiles = <<>> /\ icons = <<>>
FetchIdle ==
    scan_types = scan_types_requested /\ affects_policy = FALSE /\ fetch_out = NotCalled
ChartIdle == chart_in = NotCalled /\ chart_out = NotCalled
FoldIdle == heap = <<>> /\ fold = NotCalled /\ fold_returned = <<>>
ConcIdle == conc_in = <<>> /\ calls = <<>>
UnitIdle == ChartIdle /\ FoldIdle /\ ConcIdle

\* main, after Collections().get and get_assets and at the call of get_findings.
Init ==
    /\ pc = "get_findings"
    /\ \E guids \in BoundedSeq(Apps, MaxApps) :
          /\ assets = [i \in 1..Len(guids) |-> AssetOf(guids[i])]
          /\ platform \in [Apps -> Responses]
          /\ \A a \in Apps :
                /\ Len(platform[a].findings) + Len(platform[a].sca) <= MaxFindings
                /\ (~SeqHas(guids, a)) => platform[a] = NoFindings
    /\ idx = 1
    /\ gf = GetFindingsStart
    /\ collection_info = NotCalled
    /\ profile_idx = 1
    /\ Story = <<>>
    /\ ProfileSummaries = <<>>
    /\ error = ""
    /\ format = DefaultFormat
    /\ collection = CollectionOf(Len(assets))
    /\ artifacts = <<>>
    /\ compliance_out = NotCalled
    /\ AggIdle /\ RowIdle /\ IconIdle /\ FetchIdle /\ UnitIdle

InitAgg ==
    /\ pc = "agg_call"
    /\ agg_in \in BoundedSeq(AggFindings, MaxAggFindings) \cup {ScenarioFindings}
    /\ agg_out = NotCalled
    /\ ReportIdle /\ RowIdle /\ IconIdle /\ FetchIdle /\ UnitIdle

InitRow ==
    /\ pc = "row_call"
    /\ row_in \in RowFindings
    /\ row_out = NotCalled
    /\ ReportIdle /\ AggIdle /\ IconIdle /\ FetchIdle /\ UnitIdle

InitIcon ==
    /\ pc = "profile_summary"
    /\ profiles \in BoundedSeq(AssetAttributes, MaxProfiles)
    /\ icons = <<>>
    /\ ReportIdle /\ AggIdle /\ RowIdle /\ FetchIdle /\ UnitIdle

\* The lists --format accepts, as far as the tests 'x in format' tell them
\* apart.
FormatLists ==
    {<<"pdf">>, <<"csv">>, <<"json">>, <<"csv", "pdf">>, <<"pdf", "json">>,
     <<"json", "csv">>, <<"pdf", "csv", "json">>}

RunStatic ==
    [severity |-> 5, violates_policy |-> TRUE, scan_type |-> "STATIC",
     fields |-> OptionalFields]

\* What the platform answers for an application in the runs over the formats:
\* no finding, no answer, one finding, two findings of one scan type, a
\* finding of an unknown scan type, a finding that lacks its optional fields.
RunResponses ==
    {NoFindings,
     FetchFails,
     [findings |-> <<RunStatic>>, sca |-> <<>>],
     [findings |-> <<RunStatic, [RunStatic EXCEPT !.severity = 2]>>, sca |-> <<>>],
     [findings |-> <<[RunStatic EXCEPT !.scan_type = "UNKNOWN"],
                     [RunStatic EXCEPT !.violates_policy = FALSE]>>,
      sca |-> <<>>],
     [findings |-> <<[severity |-> 0, violates_policy |-> FALSE,
                      scan_type |-> "DYNAMIC", fields |-> {}]>>,
      sca |-> <<>>]}

\* main at the call of get_findings, for every selection of formats.
InitRun ==
    /\ pc = "get_findings"
    /\ format \in FormatLists
    /\ \E guids \in BoundedSeq(Apps, MaxApps) :
          /\ assets = [i \in 1..Len(guids) |-> AssetOf(guids[i])]
          /\ platform \in [Apps -> RunResponses]
          /\ \A a \in Apps : (~SeqHas(guids, a)) => platform[a] = NoFindings
    /\ idx = 1
    /\ gf = GetFindingsStart
    /\ collection_info = NotCalled
    /\ profile_idx = 1
    /\ Story = <<>>
    /\ ProfileSummaries = <<>>
    /\ error = ""
    /\ collection = CollectionOf(Len(assets))
    /\ artifacts = <<>>
    /\ compliance_out = NotCalled
    /\ AggIdle /\ RowIdle /\ IconIdle /\ FetchIdle /\ UnitIdle

\* One set of attributes for every branch of the compliance rule.
ComplianceAttributes ==
    {a \in AssetAttributes :
        /\ a.last_completed_scan_date = None =>
              ~(a.policy_passed_scan_requirements \/ a.policy_passed_rules
                \/ a.policy_in_grace_period)
        /\ ~a.policy_passed_scan_requirements =>
              (a.last_completed_scan_date = None
               \/ (a.policy_passed_rules /\ ~a.policy_in_grace_period))
        /\ a.policy_passed_rules => ~a.policy_in_grace_period}

\* The guid of the asset at position i of the collection.
GuidOfPosition(i) == IF i = 1 THEN "app-a" ELSE IF i = 2 THEN "app-b" ELSE "app-c"

\* main at the call of get_findings for a collection without findings: the
\* platform's overview and the attributes and compliance status of its assets.
InitCompliance ==
    /\ pc = "get_findings"
    /\ format = DefaultFormat
    /\ \E n \in 0..MaxComplianceAssets :
          \E attrs \in [1..n -> ComplianceAttributes], status \in [1..n -> ComplianceStates] :
              assets = [i \in 1..n |-> Asset(GuidOfPosition(i), attrs[i], status[i])]
    /\ platform = [a \in Apps \cup {"app-c"} |-> NoFindings]
    /\ \E fail \in 0..MaxComplianceAssets, conditional \in 0..MaxComplianceAssets,
          passing \in 0..MaxComplianceAssets, not_assess \in 0..MaxComplianceAssets :
          collection =
              [compliance_overview |->
                  ComplianceOverview(fail, conditional, passing, not_assess)]
    /\ idx = 1
    /\ gf = GetFindingsStart
    /\ collection_info = NotCalled
    /\ profile_idx = 1
    /\ Story = <<>>
    /\ ProfileSummaries = <<>>
    /\ error = ""
    /\ artifacts = <<>>
    /\ compliance_out = NotCalled
    /\ AggIdle /\ RowIdle /\ IconIdle /\ FetchIdle /\ UnitIdle

\* get_findings at the top of an iteration of its loop, for any list
\* --scan_types accepts (list_of_strings checks each entry, not the list) and
\* either value of --policy.
InitChart ==
    /\ \/ pc = "roundup_call" /\ chart_in \in RoundupArguments
       \/ pc = "chart_call" /\ chart_in \in ChartHistograms
    /\ chart_out = NotCalled
    /\ ReportIdle /\ AggIdle /\ RowIdle /\ IconIdle /\ FetchIdle /\ FoldIdle /\ ConcIdle

\* The findings of the lists aggregated concurrently: one that violates
\* policy, one of a lower severity that does not, one of a severity outside
\* the six tiers.
ConcFindings == {AggFinding(5, TRUE), AggFinding(2, FALSE), AggFinding(6, TRUE)}

\* The invocations of get_app_profile_summary_data that run concurrently.
Procs == {1, 2}

\* Two invocations about to start, each on a findings list of its own: the
\* lists are the first two objects of the heap.
InitConc ==
    /\ pc = "concurrent"
    /\ conc_in \in [Procs -> BoundedSeq(ConcFindings, MaxConcFindings)]
    /\ heap = [p \in Procs |-> ListValue(conc_in[p])]
    /\ calls = [p \in Procs |->
                   [at |-> "new_all", app_findings |-> p, allfindingsbysev |-> 0,
                    policyfindingsbysev |-> 0, i |-> 1, total_policy_findings |-> 0,
                    error |-> "", app_summary_info |-> NotCalled]]
    /\ fold = NotCalled /\ fold_returned = <<>>
    /\ ReportIdle /\ AggIdle /\ RowIdle /\ IconIdle /\ FetchIdle /\ ChartIdle

\* What the platform answers for an application in the calls of get_findings
\* whose dicts are followed: every answer of the runs but the failing fetch.
FoldResponses == RunResponses \ {FetchFails}

\* A caller about to call get_findings on a list of applications.
InitFold ==
    /\ pc = "fold_call"
    /\ \E guids \in BoundedSeq(Apps, MaxApps) :
          /\ assets = [i \in 1..Len(guids) |-> AssetOf(guids[i])]
          /\ platform \in [Apps -> FoldResponses]
          /\ \A a \in Apps : (~SeqHas(guids, a)) => platform[a] = NoFindings
    /\ idx = 1
    /\ gf = GetFindingsStart
    /\ collection_info = NotCalled
    /\ profile_idx = 1
    /\ Story = <<>>
    /\ ProfileSummaries = <<>>
    /\ error = ""
    /\ format = DefaultFormat
    /\ collection = CollectionOf(Len(assets))
    /\ artifacts = <<>>
    /\ compliance_out = NotCalled
    /\ FoldIdle
    /\ AggIdle /\ RowIdle /\ IconIdle /\ FetchIdle /\ ChartIdle /\ ConcIdle

InitFetch ==
    /\ pc = "fetch"
    /\ scan_types \in BoundedSeq(KnownScanTypes, MaxScanTypes) \ {<<>>}
    /\ affects_policy \in BOOLEAN
    /\ fetch_out = NotCalled
    /\ \E app \in Apps :
          /\ assets = <<AssetOf(app)>>
          /\ platform \in [Apps -> Responses]
          /\ \A a \in Apps :
                /\ Len(platform[a].findings) + Len(platform[a].sca) <= MaxFindings
                /\ a # app => platform[a] = NoFindings
    /\ idx = 1
    /\ gf = GetFindingsStart
    /\ collection_info = NotCalled
    /\ profile_idx = 1
    /\ Story = <<>>
    /\ ProfileSummaries = <<>>
    /\ error = ""
    /\ format = DefaultFormat
    /\ collection = CollectionOf(1)
    /\ artifacts = <<>>
    /\ compliance_out = NotCalled
    /\ AggIdle /\ RowIdle /\ IconIdle /\ UnitIdle

\* ------------------------------------------------------------------ actions
\* One iteration of the loop of get_findings (lines 247-259).
GetFindingsIter ==
    /\ pc = "get_findings"
    /\ idx <= Len(assets)
    /\ LET st == GetFindingsStep(gf, platform, assets[idx].guid)
       IN  /\ gf' = st
           /\ IF st.raised
              THEN pc' = "raised" /\ error' = st.error /\ idx' = idx
              ELSE pc' = pc /\ error' = error /\ idx' = idx + 1
    /\ UNCHANGED <<assets, platform, collection_info, profile_idx, Story, ProfileSummaries>>
    /\ UNCHANGED <<format, collection, artifacts, compliance_out>>
    /\ UNCHANGED pureVars

\* The end of get_findings (lines 261-263).
GetFindingsReturn ==
    /\ pc = "get_findings"
    /\ idx > Len(assets)
    /\ gf' = GetFindingsEnd(gf)
    /\ pc' = "collection_info"
    /\ UNCHANGED <<assets, platform, idx, collection_info, profile_idx, Story, ProfileSummaries, error>>
    /\ UNCHANGED <<format, collection, artifacts, compliance_out>>
    /\ UNCHANGED pureVars

\* finding['asset_info'] = asset
WithAssetInfo(finding, asset) ==
    [k \in (DOMAIN finding) \cup {"asset_info"} |->
        IF k = "asset_info" THEN asset ELSE finding[k]]

\* The loop of lines 159-163.
RECURSIVE AttachAssets(_, _)
AttachAssets(findings_list, rest) ==
    IF rest = <<>> THEN findings_list
    ELSE LET asset == Head(rest)
             guid == asset.guid
         IN  IF OrderedHas(findings_list, guid)
                /\ "asset_info" \notin DOMAIN OrderedGet(findings_list, guid)
             THEN AttachAssets(
                      OrderedSet(findings_list, guid,
                          WithAssetInfo(OrderedGet(findings_list, guid), asset)),
                      Tail(rest))
             ELSE AttachAssets(findings_list, Tail(rest))

\* get_collection_information after get_findings has returned (lines 157-165).
GetCollectionInformation ==
    /\ pc = "collection_info"
    /\ LET findings_list ==
               OrderedPop(OrderedPop(gf.all_findings, "collection_summary"),
                          "collection_policy_summary")
       IN  collection_info' =
               [raised |-> FALSE,
                called |-> TRUE,
                asset_infos |-> assets,
                collection_summary |-> OrderedGet(gf.all_findings, "collection_summary"),
                collection_policy_summary |->
                    OrderedGet(gf.all_findings, "collection_policy_summary"),
                findings_list |-> AttachAssets(findings_list, assets)]
    /\ pc' = "json"
    /\ UNCHANGED <<assets, platform, idx, gf, profile_idx, Story, ProfileSummaries, error>>
    /\ UNCHANGED <<format, collection, artifacts, compliance_out>>
    /\ UNCHANGED pureVars

\* json.dump(collection_info, outfile): the collection's record with the keys
\* get_collection_information added.
JsonDump(collection_record, model) ==
    [compliance_overview |-> collection_record.compliance_overview,
     asset_infos |-> model.asset_infos,
     collection_summary |-> model.collection_summary,
     collection_policy_summary |-> model.collection_policy_summary,
     findings_list |-> model.findings_list]

\* main, lines 1321-1327: the JSON file, if asked for.
WriteJson ==
    /\ pc = "json"
    /\ artifacts' =
           IF SeqHas(format, "json")
           THEN Append(artifacts,
                    [format |-> "json", content |-> JsonDump(collection, collection_info)])
           ELSE artifacts
    /\ pc' = "pdf"
    /\ UNCHANGED <<inputVars, idx, gf, collection_info, profile_idx, Story, ProfileSummaries, error,
                   compliance_out>>
    /\ UNCHANGED pureVars

\* main, line 1329, and write_pdf_report up to the cover page (lines
\* 1126-1141): nothing is written to the file before doc.build.
WritePdfReport ==
    /\ pc = "pdf"
    /\ pc' = IF SeqHas(format, "pdf") THEN "executive_summary" ELSE "csv"
    /\ UNCHANGED <<inputVars, idx, gf, collection_info, profile_idx, Story, ProfileSummaries, error,
                   artifacts, compliance_out>>
    /\ UNCHANGED pureVars

\* executive_summary_page: its two charts.
ExecutiveSummaryPage ==
    /\ pc = "executive_summary"
    /\ LET page == executive_summary_page(collection.compliance_overview,
                                          collection_info.collection_policy_summary)
       IN  IF page.raised
           THEN /\ pc' = "raised"
                /\ error' = page.error
                /\ UNCHANGED compliance_out
           ELSE /\ pc' = "asset_policy_evaluation"
                /\ error' = error
                /\ compliance_out' =
                       [raised |-> FALSE, called |-> TRUE,
                        pie |-> page.pie, chart |-> page.chart,
                        evaluated |-> FALSE, counts |-> <<>>, sections |-> <<>>]
    /\ UNCHANGED <<inputVars, idx, gf, collection_info, profile_idx, Story,
                   ProfileSummaries, artifacts>>
    /\ UNCHANGED pureVars

\* asset_policy_evaluation_page.
AssetPolicyEvaluationPage ==
    /\ pc = "asset_policy_evaluation"
    /\ LET page == asset_policy_evaluation_page(collection.compliance_overview,
                                                collection_info.asset_infos)
       IN  compliance_out' =
               [compliance_out EXCEPT !.evaluated = TRUE,
                                      !.counts = page.counts,
                                      !.sections = page.sections]
    /\ pc' = "profile_pages"
    /\ UNCHANGED <<inputVars, idx, gf, collection_info, profile_idx, Story, ProfileSummaries, error,
                   artifacts>>
    /\ UNCHANGED pureVars

\* One iteration of the loop of profile_pages (lines 741-745): the summary
\* section and the detail section of the profile in turn.
ProfilePage ==
    /\ pc = "profile_pages"
    /\ profile_idx <= Len(collection_info.findings_list)
    /\ LET profile == collection_info.findings_list[profile_idx][1]
           summary ==
               profile_summary_section(profile, collection_info.findings_list[profile_idx][2])
           section == profile_details_section(collection_info.findings_list[profile_idx][2])
       IN  IF profile # "collection_summary"
           THEN /\ ProfileSummaries' = Append(ProfileSummaries, summary)
                /\ IF section.raised
                   THEN /\ pc' = "raised"
                        /\ error' = section.error
                        /\ UNCHANGED <<profile_idx, Story>>
                   ELSE /\ Story' = Story \o
                               [i \in 1..Len(section.story) |->
                                   [profile |-> profile, table |-> section.story[i]]]
                        /\ profile_idx' = profile_idx + 1
                        /\ UNCHANGED <<pc, error>>
           ELSE /\ profile_idx' = profile_idx + 1
                /\ UNCHANGED <<pc, error, Story, ProfileSummaries>>
    /\ UNCHANGED <<assets, platform, idx, gf, collection_info>>
    /\ UNCHANGED <<format, collection, artifacts, compliance_out>>
    /\ UNCHANGED pureVars

\* The loop of profile_pages is over: doc.build writes the PDF file (line
\* 1148) and main goes on to the CSV file.
ProfilePagesDone ==
    /\ pc = "profile_pages"
    /\ profile_idx > Len(collection_info.findings_list)
    /\ artifacts' =
           Append(artifacts,
               [format |-> "pdf",
                content |-> [summaries |-> ProfileSummaries, tables |-> Story]])
    /\ pc' = "csv"
    /\ UNCHANGED <<inputVars, idx, gf, collection_info, profile_idx, Story, ProfileSummaries, error,
                   compliance_out>>
    /\ UNCHANGED pureVars

\* A variant of the CSV step whose writer takes the profiles out of the
\* report model as it writes them.
WriteCsvReportDraining ==
    /\ pc = "csv"
    /\ artifacts' =
           IF SeqHas(format, "csv")
           THEN Append(artifacts,
                    [format |-> "csv",
                     content |-> write_csv_report(collection_info.findings_list)])
           ELSE artifacts
    /\ collection_info' =
           IF SeqHas(format, "csv")
           THEN [collection_info EXCEPT !.findings_list = <<>>]
           ELSE collection_info
    /\ pc' = "done"
    /\ UNCHANGED <<inputVars, idx, gf, profile_idx, Story, ProfileSummaries, error, compliance_out>>
    /\ UNCHANGED pureVars

\* main, lines 1336-1341: the CSV file, if asked for.
WriteCsvReport ==
    /\ pc = "csv"
    /\ artifacts' =
           IF SeqHas(format, "csv")
           THEN Append(artifacts,
                    [format |-> "csv",
                     content |-> write_csv_report(collection_info.findings_list)])
           ELSE artifacts
    /\ pc' = "done"
    /\ UNCHANGED <<inputVars, idx, gf, collection_info, profile_idx, Story, ProfileSummaries, error,
                   compliance_out>>
    /\ UNCHANGED pureVars

\* A call of get_app_profile_summary_data.
AggCall ==
    /\ pc = "agg_call"
    /\ agg_out' = get_app_profile_summary_data(agg_in)
    /\ pc' = "agg_done"
    /\ UNCHANGED <<agg_in, reportVars, rowVars, iconVars, fetchVars, unitVars>>

RowCall(scan_type, result) ==
    /\ pc = "row_call"
    /\ row_in.scan_type = scan_type
    /\ row_out' = result
    /\ pc' = "row_done"
    /\ UNCHANGED <<row_in, reportVars, aggVars, iconVars, fetchVars, unitVars>>

StaticRow == RowCall("STATIC", static_findings_data_row(row_in))
DynamicRow == RowCall("DYNAMIC", dyanmic_findings_data_row(row_in))
ScaRow == RowCall("SCA", sca_findings_data_row(row_in))
ManualRow == RowCall("MANUAL", manual_findings_data_row(row_in))

\* profile_summary_section for the next profile: the icon it draws.
ProfileSummarySection ==
    /\ pc = "profile_summary"
    /\ Len(icons) < Len(profiles)
    /\ icons' = Append(icons, profile_summary_icon(profiles[Len(icons) + 1]))
    /\ UNCHANGED <<pc, profiles, reportVars, aggVars, rowVars, fetchVars, unitVars>>

\* Lines 238-256 for the application in turn: the requests issued, the list
\* fed to the aggregation and its aggregate; scan_types_requested is the
\* caller's list as the call leaves it (the removal is done on a copy).
FetchForApp ==
    /\ pc = "fetch"
    /\ LET app == assets[idx].guid
           fed == FetchedFindingsFor(platform, app, scan_types, affects_policy)
       IN  fetch_out' =
               [raised |-> FALSE,
                called |-> TRUE,
                scan_types_requested |-> scan_types,
                requests |-> FetchRequests(scan_types, affects_policy),
                fed |-> fed,
                this_app_findings |-> get_app_profile_summary_data(fed)]
    /\ pc' = "fetched"
    /\ UNCHANGED <<scan_types, affects_policy>>
    /\ UNCHANGED <<reportVars, aggVars, rowVars, iconVars, unitVars>>

\* get_findings up to its loop (lines 235-237): two new dicts for the
\* collection's histograms, and all_findings empty.
FoldCallStart ==
    /\ pc = "fold_call"
    /\ Len(fold_returned) < MaxFoldCalls
    /\ heap' = heap \o <<EmptyDict, EmptyDict>>
    /\ fold' = [raised |-> FALSE,
                called |-> TRUE,
                collection_all_findings_summary |-> NewDict(heap),
                collection_policy_summary |-> NewDict(heap) + 1,
                all_findings |-> <<>>]
    /\ idx' = 1
    /\ pc' = "fold_loop"
    /\ UNCHANGED fold_returned
    /\ UNCHANGED <<assets, platform, gf, collection_info, profile_idx, Story,
                   ProfileSummaries, error, format, collection, artifacts, compliance_out>>
    /\ UNCHANGED <<aggVars, rowVars, iconVars, fetchVars, chartVars, concVars>>

\* One iteration of the loop (lines 247-259) on references:
\* get_app_profile_summary_data creates the application's two histograms
\* (lines 182, 189), the two folds store into the collection's dicts, and
\* all_findings[app] keeps the application's summary.
FoldIter ==
    /\ pc = "fold_loop"
    /\ idx <= Len(assets)
    /\ LET app == assets[idx].guid
           summary == get_app_profile_summary_data(FetchedFindings(platform, app))
           allfindingsbysev == NewDict(heap)
           policyfindingsbysev == NewDict(heap) + 1
           created == heap \o <<summary.findings_by_severity,
                                summary.policy_findings_by_severity>>
           this_app_findings ==
               [findings_by_severity |-> allfindingsbysev,
                policy_findings_by_severity |-> policyfindingsbysev,
                total_findings |-> summary.total_findings,
                total_policy_findings |-> summary.total_policy_findings]
           all_folded ==
               UpdateCollectionFindingsInPlace(created,
                   fold.collection_all_findings_summary, allfindingsbysev)
           policy_folded ==
               UpdateCollectionFindingsInPlace(all_folded,
                   fold.collection_policy_summary, policyfindingsbysev)
       IN  /\ heap' = policy_folded
           /\ fold' = [fold EXCEPT !.all_findings = OrderedSet(@, app, this_app_findings)]
    /\ idx' = idx + 1
    /\ UNCHANGED <<pc, fold_returned>>
    /\ UNCHANGED <<assets, platform, gf, collection_info, profile_idx, Story,
                   ProfileSummaries, error, format, collection, artifacts, compliance_out>>
    /\ UNCHANGED <<aggVars, rowVars, iconVars, fetchVars, chartVars, concVars>>

\* After the loop (lines 261-263): the two collection dicts are stored in
\* all_findings and all_findings is returned; the caller may call again.
FoldReturn ==
    /\ pc = "fold_loop"
    /\ idx > Len(assets)
    /\ fold_returned' =
           Append(fold_returned,
               OrderedSet(OrderedSet(fold.all_findings, "collection_summary",
                                     fold.collection_all_findings_summary),
                          "collection_policy_summary", fold.collection_policy_summary))
    /\ pc' = "fold_call"
    /\ UNCHANGED <<heap, fold, idx>>
    /\ UNCHANGED <<assets, platform, gf, collection_info, profile_idx, Story,
                   ProfileSummaries, error, format, collection, artifacts, compliance_out>>
    /\ UNCHANGED <<aggVars, rowVars, iconVars, fetchVars, chartVars, concVars>>

\* A variant of lines 182-188 in which the histogram is a dict the
\* invocations share: a later invocation takes the dict an earlier one made
\* and assigns the six empty lists into it.
AggNewAllShared(p) ==
    /\ pc = "concurrent"
    /\ calls[p].at = "new_all"
    /\ LET made == {q \in Procs \ {p} : calls[q].allfindingsbysev # 0}
           ref == IF made = {} THEN NewDict(heap)
                  ELSE calls[CHOOSE q \in made : TRUE].allfindingsbysev
       IN  /\ heap' = IF made = {} THEN Append(heap, NewBuckets)
                      ELSE [heap EXCEPT ![ref] = NewBuckets]
           /\ calls' = [calls EXCEPT ![p].allfindingsbysev = ref,
                                     ![p].at = "new_policy"]
    /\ UNCHANGED <<pc, conc_in, fold, fold_returned>>
    /\ UNCHANGED <<reportVars, aggVars, rowVars, iconVars, fetchVars, chartVars>>

\* Lines 182-188 of invocation p: allfindingsbysev = {} and its six lists.
AggNewAll(p) ==
    /\ pc = "concurrent"
    /\ calls[p].at = "new_all"
    /\ heap' = Append(heap, NewBuckets)
    /\ calls' = [calls EXCEPT ![p].allfindingsbysev = NewDict(heap),
                              ![p].at = "new_policy"]
    /\ UNCHANGED <<pc, conc_in, fold, fold_returned>>
    /\ UNCHANGED <<reportVars, aggVars, rowVars, iconVars, fetchVars, chartVars>>

\* Lines 189-195 of invocation p: policyfindingsbysev = {} and its six lists.
AggNewPolicy(p) ==
    /\ pc = "concurrent"
    /\ calls[p].at = "new_policy"
    /\ heap' = Append(heap, NewBuckets)
    /\ calls' = [calls EXCEPT ![p].policyfindingsbysev = NewDict(heap),
                              ![p].at = "sort"]
    /\ UNCHANGED <<pc, conc_in, fold, fold_returned>>
    /\ UNCHANGED <<reportVars, aggVars, rowVars, iconVars, fetchVars, chartVars>>

\* Line 196 of invocation p: the caller's list is sorted in place.
AggSort(p) ==
    /\ pc = "concurrent"
    /\ calls[p].at = "sort"
    /\ heap' = [heap EXCEPT ![calls[p].app_findings] =
                    ListValue(SortBySeverityDesc(@.items))]
    /\ calls' = [calls EXCEPT ![p].at = "loop"]
    /\ UNCHANGED <<pc, conc_in, fold, fold_returned>>
    /\ UNCHANGED <<reportVars, aggVars, rowVars, iconVars, fetchVars, chartVars>>

\* One iteration of the loop of lines 197-202 of invocation p.
AggBucket(p) ==
    /\ pc = "concurrent"
    /\ calls[p].at = "loop"
    /\ calls[p].i <= Len(heap[calls[p].app_findings].items)
    /\ LET finding == heap[calls[p].app_findings].items[calls[p].i]
           key == SevKey(finding.severity)
           all == BucketAppend(heap[calls[p].allfindingsbysev], key, finding)
           appended == [heap EXCEPT ![calls[p].allfindingsbysev] = all.dict]
           policy == BucketAppend(appended[calls[p].policyfindingsbysev], key, finding)
       IN  IF all.raised
           THEN /\ calls' = [calls EXCEPT ![p].at = "raised", ![p].error = all.error]
                /\ heap' = heap
           ELSE IF ~finding.violates_policy
           THEN /\ calls' = [calls EXCEPT ![p].i = @ + 1]
                /\ heap' = appended
           ELSE IF policy.raised
           THEN /\ calls' = [calls EXCEPT ![p].at = "raised", ![p].error = policy.error]
                /\ heap' = appended
           ELSE /\ calls' = [calls EXCEPT ![p].i = @ + 1]
                /\ heap' = [appended EXCEPT ![calls[p].policyfindingsbysev] = policy.dict]
    /\ UNCHANGED <<pc, conc_in, fold, fold_returned>>
    /\ UNCHANGED <<reportVars, aggVars, rowVars, iconVars, fetchVars, chartVars>>

\* Lines 204-205 of invocation p, after the loop: every list of
\* allfindingsbysev is replaced by its length.
AggCountAll(p) ==
    /\ pc = "concurrent"
    /\ calls[p].at = "loop"
    /\ calls[p].i > Len(heap[calls[p].app_findings].items)
    /\ LET counted == BucketLengths(heap[calls[p].allfindingsbysev])
       IN  IF counted.raised
           THEN /\ calls' = [calls EXCEPT ![p].at = "raised", ![p].error = counted.error]
                /\ heap' = heap
           ELSE /\ calls' = [calls EXCEPT ![p].at = "count_policy"]
                /\ heap' = [heap EXCEPT ![calls[p].allfindingsbysev] = counted.dict]
    /\ UNCHANGED <<pc, conc_in, fold, fold_returned>>
    /\ UNCHANGED <<reportVars, aggVars, rowVars, iconVars, fetchVars, chartVars>>

\* Lines 207-211 of invocation p: the same for policyfindingsbysev, with the
\* lengths summed into total_policy_findings.
AggCountPolicy(p) ==
    /\ pc = "concurrent"
    /\ calls[p].at = "count_policy"
    /\ LET counted == BucketLengths(heap[calls[p].policyfindingsbysev])
       IN  IF counted.raised
           THEN /\ calls' = [calls EXCEPT ![p].at = "raised", ![p].error = counted.error]
                /\ heap' = heap
           ELSE /\ calls' = [calls EXCEPT
                                ![p].at = "return",
                                ![p].total_policy_findings =
                                    HistogramTotal([k \in DOMAIN counted.dict |->
                                                       counted.dict[k].count])]
                /\ heap' = [heap EXCEPT ![calls[p].policyfindingsbysev] = counted.dict]
    /\ UNCHANGED <<pc, conc_in, fold, fold_returned>>
    /\ UNCHANGED <<reportVars, aggVars, rowVars, iconVars, fetchVars, chartVars>>

\* Lines 213-218 of invocation p: app_summary_info holds the two dicts and the
\* list by reference, the two totals by value.
AggReturn(p) ==
    /\ pc = "concurrent"
    /\ calls[p].at = "return"
    /\ calls' = [calls EXCEPT
                    ![p].at = "returned",
                    ![p].app_summary_info =
                        [raised |-> FALSE,
                         called |-> TRUE,
                         findings_by_severity |-> calls[p].allfindingsbysev,
                         policy_findings_by_severity |-> calls[p].policyfindingsbysev,
                         total_findings |-> Len(heap[calls[p].app_findings].items),
                         total_policy_findings |-> calls[p].total_policy_findings,
                         app_findings |-> calls[p].app_findings]]
    /\ UNCHANGED <<pc, heap, conc_in, fold, fold_returned>>
    /\ UNCHANGED <<reportVars, aggVars, rowVars, iconVars, fetchVars, chartVars>>

\* A call of roundup.
RoundupCall ==
    /\ pc = "roundup_call"
    /\ chart_out' = roundup(chart_in.x, chart_in.multipleOf)
    /\ pc' = "roundup_done"
    /\ UNCHANGED <<chart_in, reportVars, aggVars, rowVars, iconVars, fetchVars, foldVars, concVars>>

\* A call of findings_summary_chart.
FindingsSummaryChartCall ==
    /\ pc = "chart_call"
    /\ chart_out' = findings_summary_chart(chart_in)
    /\ pc' = "chart_done"
    /\ UNCHANGED <<chart_in, reportVars, aggVars, rowVars, iconVars, fetchVars, foldVars, concVars>>

\* ---------------------------------------------------------- specifications
Next ==
    \/ GetFindingsIter
    \/ GetFindingsReturn
    \/ GetCollectionInformation
    \/ WriteJson
    \/ WritePdfReport
    \/ ExecutiveSummaryPage
    \/ AssetPolicyEvaluationPage
    \/ ProfilePage
    \/ ProfilePagesDone
    \/ WriteCsvReport

\* The run with the default arguments.
Spec == Init /\ [][Next]_vars

\* The run for every selection of formats.
SpecRun == InitRun /\ [][Next]_vars

\* The run on assets of every compliance state and every overview.
SpecCompliance == InitCompliance /\ [][Next]_vars

NextAgg == AggCall

SpecAgg == InitAgg /\ [][NextAgg]_vars

NextRow == StaticRow \/ DynamicRow \/ ScaRow \/ ManualRow

SpecRow == InitRow /\ [][NextRow]_vars

NextFetch == FetchForApp

SpecFetch == InitFetch /\ [][NextFetch]_vars

NextConc ==
    \E p \in Procs :
        \/ AggNewAll(p)
        \/ AggNewPolicy(p)
        \/ AggSort(p)
        \/ AggBucket(p)
        \/ AggCountAll(p)
        \/ AggCountPolicy(p)
        \/ AggReturn(p)

\* Two invocations of get_app_profile_summary_data whose steps interleave.
SpecConc == InitConc /\ [][NextConc]_vars

NextFold == FoldCallStart \/ FoldIter \/ FoldReturn

\* Calls of get_findings, one after the other, with dicts as objects.
SpecFold == InitFold /\ [][NextFold]_vars

NextChart == RoundupCall \/ FindingsSummaryChartCall

SpecChart == InitChart /\ [][NextChart]_vars

NextIcon == ProfileSummarySection

SpecIcon == InitIcon /\ [][NextIcon]_vars

\* ------------------------------------------------ what the properties read
Tiers == 0..5

\* The number of findings of a list with severity s (and, with policyOnly,
\* with violates_policy true), counted on the list itself.
CountSeverity(fl, s, policyOnly) ==
    Cardinality({i \in 1..Len(fl) :
        fl[i].severity = s /\ (policyOnly => fl[i].violates_policy)})

SeveritiesInRange(fl) == \A i \in 1..Len(fl) : fl[i].severity \in Tiers

\* The six counts of a histogram added up key by key.
SixTierSum(h) ==
    h["sev0"] + h["sev1"] + h["sev2"] + h["sev3"] + h["sev4"] + h["sev5"]

\* The application of the asset at position i, and what was fetched for it.
GuidAt(i) == assets[i].guid
FetchedAt(i) == FetchedFindings(platform, GuidAt(i))

\* The number of findings fed to the aggregation by the first n iterations.
RECURSIVE FedIn(_)
FedIn(n) == IF n = 0 THEN 0 ELSE Len(FetchedAt(n)) + FedIn(n - 1)

\* The per-application aggregates all_findings holds (its entries other than
\* the two summaries).
HeldAggregates(all_findings) ==
    {all_findings[i][2] : i \in {j \in 1..Len(all_findings) :
        all_findings[j][1] \notin {"collection_summary", "collection_policy_summary"}}}

GetFindingsReturned == pc = "collection_info"

\* ------------------------------------------------------------------ claims

\* C1: for findings whose severities are all in 0..5,
\* get_app_profile_summary_data returns, for every tier s, findings_by_severity
\* [sev s] = the number of input findings of severity s and
\* policy_findings_by_severity[sev s] = the number of those that violate policy.
C1_HistogramsCountInput ==
    (pc = "agg_done" /\ SeveritiesInRange(agg_in)) =>
        /\ ~agg_out.raised
        /\ \A s \in Tiers :
              /\ agg_out.findings_by_severity[SevKey(s)] = CountSeverity(agg_in, s, FALSE)
              /\ agg_out.policy_findings_by_severity[SevKey(s)] =
                     CountSeverity(agg_in, s, TRUE)

\* The call on the ten findings of the scenario has returned 2/1/3/1/1/2 for
\* the tiers 5..0 and 1/0/2/1/0/0 for the policy findings.
C1_Witness ==
    /\ pc = "agg_done"
    /\ agg_in = ScenarioFindings
    /\ ~agg_out.raised
    /\ agg_out.findings_by_severity =
           [sev5 |-> 2, sev4 |-> 1, sev3 |-> 3, sev2 |-> 1, sev1 |-> 1, sev0 |-> 2]
    /\ agg_out.policy_findings_by_severity =
           [sev5 |-> 1, sev4 |-> 0, sev3 |-> 2, sev2 |-> 1, sev1 |-> 0, sev0 |-> 0]
    /\ agg_out.total_findings = 10
    /\ agg_out.total_policy_findings = 4

\* C2: the counts of every severity histogram add up to the number of findings
\* fed in: an application's total_findings is the sum of its
\* findings_by_severity counts (and the number of findings fetched for it), and
\* the collection histogram adds up to the number of findings fetched by the
\* iterations done so far.
C2_HistogramSumsToFedIn ==
    /\ \A i \in 1..(idx - 1) :
          OrderedHas(gf.all_findings, GuidAt(i)) =>
              LET agg == OrderedGet(gf.all_findings, GuidAt(i))
              IN  /\ agg.total_findings = SixTierSum(agg.findings_by_severity)
                  /\ agg.total_findings = Len(FetchedAt(i))
    /\ HistogramTotal(gf.collection_all_findings_summary) = FedIn(idx - 1)
    /\ collection_info.called =>
          HistogramTotal(collection_info.collection_summary) = FedIn(Len(assets))

\* The report model of two applications with four findings in all is built.
C2_Witness ==
    /\ collection_info.called
    /\ Len(assets) = 2
    /\ GuidAt(1) # GuidAt(2)
    /\ FedIn(2) = 4
    /\ HistogramTotal(collection_info.collection_summary) = 4

\* C3: in every aggregate get_app_profile_summary_data returns,
\* policy_findings_by_severity[s] <= findings_by_severity[s] for every tier, and
\* total_policy_findings is the sum of policy_findings_by_severity.
C3_PolicyWithinAll ==
    (pc = "agg_done" /\ ~agg_out.raised) =>
        /\ \A k \in SevKeys :
              agg_out.policy_findings_by_severity[k] <= agg_out.findings_by_severity[k]
        /\ agg_out.total_policy_findings = SixTierSum(agg_out.policy_findings_by_severity)

\* An aggregate with a tier that holds a policy finding and another finding.
C3_Witness ==
    /\ pc = "agg_done"
    /\ ~agg_out.raised
    /\ agg_out.findings_by_severity["sev3"] = 2
    /\ agg_out.policy_findings_by_severity["sev3"] = 1
    /\ agg_out.findings_by_severity["sev0"] = 1
    /\ agg_out.total_policy_findings = 1

\* The compliance state of the priority rule: first match wins.
ComplianceStateByRule(attrs) ==
    IF attrs.last_completed_scan_date = None THEN "NOT_ASSESSED"
    ELSE IF ~attrs.policy_passed_scan_requirements THEN "DID_NOT_PASS"
    ELSE IF attrs.policy_passed_rules THEN "PASSED"
    ELSE IF attrs.policy_in_grace_period THEN "CONDITIONAL_PASS"
    ELSE "DID_NOT_PASS"

\* The state an icon stands for.
StateOfIcon(icon) ==
    CASE icon = not_assess_icon -> "NOT_ASSESSED"
      [] icon = pass_icon -> "PASSED"
      [] icon = conditional_icon -> "CONDITIONAL_PASS"
      [] icon = fail_icon -> "DID_NOT_PASS"
      [] OTHER -> "none"

\* C4: the icon profile_summary_section chooses for an asset stands for the
\* state of the priority rule (no scan date: NOT_ASSESSED; else scan
\* requirements failed: DID_NOT_PASS; else rules passed: PASSED; else in grace
\* period: CONDITIONAL_PASS; else DID_NOT_PASS), for every combination of the
\* four attributes.
C4_IconFollowsPriorityRule ==
    \A i \in 1..Len(icons) : StateOfIcon(icons[i]) = ComplianceStateByRule(profiles[i])

\* A scanned asset that passed the rules but not the scan requirements got the
\* fail icon, and an asset never scanned, all flags true, the not-assessed one.
C4_Witness ==
    /\ Len(icons) = 2
    /\ profiles[1].last_completed_scan_date # None
    /\ ~profiles[1].policy_passed_scan_requirements
    /\ profiles[1].policy_passed_rules
    /\ icons[1] = fail_icon
    /\ profiles[2].last_completed_scan_date = None
    /\ profiles[2].policy_passed_rules
    /\ profiles[2].policy_passed_scan_requirements
    /\ icons[2] = not_assess_icon

\* The sum over the aggregates all_findings holds of the count of key k in
\* their histogram `field`.
RECURSIVE SumHeld(_, _, _)
SumHeld(all_findings, field, k) ==
    IF all_findings = <<>> THEN 0
    ELSE IF Head(all_findings)[1] \in {"collection_summary", "collection_policy_summary"}
         THEN SumHeld(Tail(all_findings), field, k)
         ELSE Head(all_findings)[2][field][k] + SumHeld(Tail(all_findings), field, k)

\* C5: after get_findings, collection_summary[s] is the sum of
\* findings_by_severity[s] over the per-application aggregates the returned map
\* holds, and collection_policy_summary[s] that of policy_findings_by_severity
\* [s], also when the list names an application more than once.  (A tier the
\* summary does not hold is read as 0 here.)
C5_SummaryIsSumOfHeldAggregates ==
    GetFindingsReturned =>
        \A k \in SevKeys :
            /\ DictGetOr(OrderedGet(gf.all_findings, "collection_summary"), k, 0) =
                   SumHeld(gf.all_findings, "findings_by_severity", k)
            /\ DictGetOr(OrderedGet(gf.all_findings, "collection_policy_summary"), k, 0) =
                   SumHeld(gf.all_findings, "policy_findings_by_severity", k)

\* The application lists that are a reordering of guids.
Reorderings(guids) ==
    {[i \in 1..Len(guids) |-> guids[p[i]]] : p \in Permutations(1..Len(guids))}

Guids == [i \in 1..Len(assets) |-> GuidAt(i)]

\* C6: the collection histograms do not depend on the order of the
\* applications: get_findings over any reordering of the list yields the
\* collection_summary and collection_policy_summary this run has built (and
\* raises if this run has raised).
C6_FoldOrderIndependent ==
    /\ GetFindingsReturned =>
          \A apps \in Reorderings(Guids) :
              LET other == get_findings(platform, apps)
              IN  /\ ~other.raised
                  /\ other.collection_all_findings_summary =
                         OrderedGet(gf.all_findings, "collection_summary")
                  /\ other.collection_policy_summary =
                         OrderedGet(gf.all_findings, "collection_policy_summary")
    /\ (pc = "raised" /\ ~collection_info.called) =>
          \A apps \in Reorderings(Guids) : get_findings(platform, apps).raised

\* get_findings has returned for two applications whose histograms differ.
C6_Witness ==
    /\ GetFindingsReturned
    /\ Len(assets) = 2
    /\ GuidAt(1) # GuidAt(2)
    /\ OrderedGet(gf.all_findings, GuidAt(1)).findings_by_severity["sev5"] = 2
    /\ OrderedGet(gf.all_findings, GuidAt(2)).findings_by_severity["sev5"] = 1
    /\ OrderedGet(gf.all_findings, GuidAt(2)).policy_findings_by_severity["sev3"] = 1
    /\ OrderedGet(gf.all_findings, "collection_summary")["sev5"] = 3

\* C7: a finding whose severity is outside 0..5 does not make the aggregation
\* raise: once get_findings has returned, every application of the list has an
\* aggregate that counts all the findings fetched for it.
C7_OutOfRangeSeverityRecovered ==
    /\ ~(pc = "raised" /\ error = "KeyError:severity")
    /\ GetFindingsReturned =>
          \A i \in 1..Len(assets) :
              /\ OrderedHas(gf.all_findings, GuidAt(i))
              /\ OrderedGet(gf.all_findings, GuidAt(i)).total_findings = Len(FetchedAt(i))

\* A histogram that holds the six tiers, each with a count >= 0.
FullHistogram(h) == DOMAIN h = SevKeys /\ \A k \in SevKeys : h[k] \in Nat

\* C8: every severity histogram holds the six tiers sev0..sev5 with a count
\* >= 0: each application's two histograms, and the two collection histograms
\* get_findings returns, a collection of no assets included.
C8_HistogramsHoldSixTiers ==
    /\ \A agg \in HeldAggregates(gf.all_findings) :
          /\ FullHistogram(agg.findings_by_severity)
          /\ FullHistogram(agg.policy_findings_by_severity)
    /\ GetFindingsReturned =>
          /\ FullHistogram(OrderedGet(gf.all_findings, "collection_summary"))
          /\ FullHistogram(OrderedGet(gf.all_findings, "collection_policy_summary"))
    /\ collection_info.called =>
          /\ FullHistogram(collection_info.collection_summary)
          /\ FullHistogram(collection_info.collection_policy_summary)

\* C9: a row function never raises on a finding that lacks optional fields of
\* its scan type: it returns a row.
C9_RowNeverRaisesOnMissingField ==
    pc = "row_done" => (~row_out.raised /\ Len(row_out.row) > 0)

\* The row function of a finding of a scan type the program knows.
KnownRow(f) ==
    CASE f.scan_type = "STATIC" -> static_findings_data_row(f)
      [] f.scan_type = "DYNAMIC" -> dyanmic_findings_data_row(f)
      [] f.scan_type = "SCA" -> sca_findings_data_row(f)
      [] OTHER -> manual_findings_data_row(f)

CountScanType(fl, t) == Cardinality({i \in 1..Len(fl) : fl[i].scan_type = t})

CountUnknown(fl) ==
    Cardinality({i \in 1..Len(fl) : fl[i].scan_type \notin KnownScanTypes})

\* The profile at position k of the report model.
ProfileAt(k) == collection_info.findings_list[k][2]

\* C10: a finding of a scan type other than STATIC, DYNAMIC, SCA, MANUAL is
\* left out of the detail tables and does not end the rendering: no table of
\* such a scan type is drawn, a table drawn holds every finding of its scan
\* type, the rendering of a profile raises only at a finding of a known scan
\* type, and the finding is counted in the application's totals and in the
\* collection's.
C10_UnknownScanTypeSkippedAndCounted ==
    collection_info.called =>
        /\ \A i \in 1..Len(Story) :
              /\ Story[i].table.scan_type \in KnownScanTypes
              /\ Len(Story[i].table.rows) =
                     CountScanType(OrderedGet(collection_info.findings_list,
                                              Story[i].profile).app_findings,
                                   Story[i].table.scan_type)
        /\ (pc = "raised" /\ compliance_out.called /\ compliance_out.evaluated) =>
              \E i \in 1..Len(ProfileAt(profile_idx).app_findings) :
                  LET f == ProfileAt(profile_idx).app_findings[i]
                  IN  f.scan_type \in KnownScanTypes /\ KnownRow(f).raised
        /\ \A k \in 1..Len(collection_info.findings_list) :
              LET fetched == FetchedFindings(platform, collection_info.findings_list[k][1])
              IN  /\ CountUnknown(ProfileAt(k).app_findings) = CountUnknown(fetched)
                  /\ ProfileAt(k).total_findings = Len(fetched)
                  /\ SixTierSum(ProfileAt(k).findings_by_severity) = Len(fetched)
        /\ HistogramTotal(collection_info.collection_summary) = FedIn(Len(assets))

\* The document of a report is done whose first profile holds a finding of an
\* unknown scan type, counted in the profile's tier and in the collection's,
\* and whose second profile has a detail table.
C10_Witness ==
    /\ pc = "done"
    /\ Len(collection_info.findings_list) = 2
    /\ CountUnknown(ProfileAt(1).app_findings) = 1
    /\ ProfileAt(1).total_findings = 2
    /\ ProfileAt(1).findings_by_severity["sev3"] = 1
    /\ collection_info.collection_summary["sev3"] = 1
    /\ Len(Story) = 1
    /\ Story[1].profile = collection_info.findings_list[2][1]

\* The findings of severity s of a list, in the order the list holds them.
OfSeverity(fl, s) == LET HasSeverity(f) == f.severity = s IN SelectSeq(fl, HasSeverity)

\* C16: the app_findings get_app_profile_summary_data returns is a permutation
\* of the input findings in non-increasing severity, and findings of equal
\* severity keep the relative order the input had them in.
C16_SortedStablePermutation ==
    (pc = "agg_done" /\ ~agg_out.raised) =>
        LET out == agg_out.app_findings
        IN  /\ Len(out) = Len(agg_in)
            /\ \A i \in 1..(Len(out) - 1) : out[i].severity >= out[i + 1].severity
            /\ \A s \in 0..6 : OfSeverity(out, s) = OfSeverity(agg_in, s)

\* A medium policy finding, a very high finding and a medium finding came back
\* with the very high one first and the two medium ones in their input order.
C16_Witness ==
    /\ pc = "agg_done"
    /\ agg_in = <<AggFinding(3, TRUE), AggFinding(5, FALSE), AggFinding(3, FALSE)>>
    /\ ~agg_out.raised
    /\ agg_out.app_findings =
           <<AggFinding(5, FALSE), AggFinding(3, TRUE), AggFinding(3, FALSE)>>

\* C15: with --policy every finding of an application's app_findings has
\* violates_policy true.
C15_PolicyRunHoldsOnlyPolicyFindings ==
    (pc = "fetched" /\ affects_policy /\ ~fetch_out.this_app_findings.raised) =>
        \A i \in 1..Len(fetch_out.this_app_findings.app_findings) :
            fetch_out.this_app_findings.app_findings[i].violates_policy

\* The scan types the requests of an iteration name.
NamedScanTypes(requests) ==
    UNION {{requests[i].scan_type[j] : j \in 1..Len(requests[i].scan_type)} :
              i \in 1..Len(requests)}

\* C20: for every non-empty selection of scan types, every request an
\* iteration of get_findings issues names at least one scan type, the scan
\* types the requests name are the selected ones, SCA is requested in a call
\* of its own exactly when it is selected, and the caller's list is unchanged.
C20_EveryFetchNamesSelectedTypes ==
    pc = "fetched" =>
        /\ \A i \in 1..Len(fetch_out.requests) : fetch_out.requests[i].scan_type # <<>>
        /\ NamedScanTypes(fetch_out.requests) = {scan_types[j] : j \in 1..Len(scan_types)}
        /\ SeqHas(scan_types, "SCA") <=>
              \E i \in 1..Len(fetch_out.requests) :
                  fetch_out.requests[i].scan_type = <<"SCA">>
        /\ fetch_out.scan_types_requested = scan_types

\* The number of assets the priority rule puts in a compliance state.
TallyOfRule(state) ==
    Cardinality({i \in 1..Len(assets) :
        ComplianceStateByRule(assets[i].attributes) = state})

TallyOfAssets ==
    <<TallyOfRule("DID_NOT_PASS"), TallyOfRule("CONDITIONAL_PASS"),
      TallyOfRule("PASSED"), TallyOfRule("NOT_ASSESSED")>>

\* C12: the four counts the compliance pie chart and the Asset Policy
\* Evaluation page read are the tally of the priority rule over the
\* collection's assets (did not pass, conditional, passed, not assessed), and
\* their sum is the number of assets.
C12_OverviewIsTallyOfClassifier ==
    compliance_out.called =>
        /\ compliance_out.pie.compliance_data = TallyOfAssets
        /\ compliance_out.pie.total_assets = Len(assets)
        /\ compliance_out.evaluated => compliance_out.counts = TallyOfAssets

\* The file of a format, once written.
Written(fmt) == \E i \in 1..Len(artifacts) : artifacts[i].format = fmt

ArtifactOf(fmt) == artifacts[CHOOSE i \in 1..Len(artifacts) : artifacts[i].format = fmt]

\* The sum of total_findings over the profiles of a findings_list, and the
\* number of finding records its app_findings lists hold.
RECURSIVE SumTotalFindings(_)
SumTotalFindings(findings_list) ==
    IF findings_list = <<>> THEN 0
    ELSE Head(findings_list)[2].total_findings + SumTotalFindings(Tail(findings_list))

RECURSIVE CountFindingRecords(_)
CountFindingRecords(findings_list) ==
    IF findings_list = <<>> THEN 0
    ELSE Len(Head(findings_list)[2].app_findings) + CountFindingRecords(Tail(findings_list))

\* C11: the number of data rows of the CSV file is the sum of total_findings
\* over the per-application aggregates of the report model, and so is the
\* number of finding records in the app_findings lists of the JSON dump.
C11_CsvRowsAreTotalFindings ==
    /\ Written("csv") =>
          Len(ArtifactOf("csv").content.data_rows) =
              SumTotalFindings(collection_info.findings_list)
    /\ Written("json") =>
          CountFindingRecords(ArtifactOf("json").content.findings_list) =
              SumTotalFindings(collection_info.findings_list)

\* The JSON and CSV files of two applications with three findings in all, one
\* of them of an unknown scan type, are written: three data rows.
C11_Witness ==
    /\ pc = "done"
    /\ Written("json") /\ Written("csv")
    /\ Len(collection_info.findings_list) = 2
    /\ SumTotalFindings(collection_info.findings_list) = 3
    /\ Len(ArtifactOf("csv").content.data_rows) = 3
    /\ \E i \in 1..3 : ArtifactOf("csv").content.data_rows[i][3] = "Unknown"
    /\ CountFindingRecords(ArtifactOf("json").content.findings_list) = 3

\* C13: the report model is built only when every asset has an entry in what
\* get_findings returns: in a built model every asset has its aggregate with
\* its metadata attached, and when the fetch of an asset's findings fails no
\* model is built (the run ends with the error), the asset is not left out.
C13_ModelHoldsEveryAssetOrFails ==
    /\ collection_info.called =>
          \A i \in 1..Len(assets) :
              /\ OrderedHas(collection_info.findings_list, GuidAt(i))
              /\ "asset_info" \in
                     DOMAIN OrderedGet(collection_info.findings_list, GuidAt(i))
              /\ OrderedGet(collection_info.findings_list, GuidAt(i))["asset_info"] =
                     assets[i]
    /\ (\E i \in 1..Len(assets) : FetchRaises(platform, GuidAt(i))) =>
          /\ ~collection_info.called
          /\ pc \in {"get_findings", "raised"}

\* The fetch for the first of two applications failed: the run has ended with
\* the error and no report model.
C13_Witness ==
    /\ pc = "raised"
    /\ error = "FetchError"
    /\ Len(assets) = 2
    /\ GuidAt(1) # GuidAt(2)
    /\ FetchRaises(platform, GuidAt(1))
    /\ gf.all_findings = <<>>
    /\ ~collection_info.called

\* C14: no file is written before the findings of every application are
\* fetched and aggregated: a run in which the fetch of an application fails
\* writes no file at all, and a file is written only after get_findings has
\* gone through the whole list and the model is built.
C14_NoArtifactBeforeAllFetched ==
    /\ artifacts # <<>> =>
          /\ collection_info.called
          /\ idx > Len(assets)
          /\ \A i \in 1..Len(assets) :
                /\ ~FetchRaises(platform, GuidAt(i))
                /\ OrderedHas(gf.all_findings, GuidAt(i))
    /\ error = "FetchError" => artifacts = <<>>

\* With the JSON file asked for, the fetch for the second application failed
\* after the first was aggregated: the run has ended and no file is written.
C14_Witness ==
    /\ pc = "raised"
    /\ error = "FetchError"
    /\ SeqHas(format, "json")
    /\ idx = 2
    /\ OrderedHas(gf.all_findings, GuidAt(1))
    /\ OrderedGet(gf.all_findings, GuidAt(1)).total_findings = 2
    /\ artifacts = <<>>

\* C17: once get_collection_information has returned the report model, no
\* step changes it (nor the collection's record with the compliance
\* overview): the JSON dump, every page of the PDF and the CSV writer leave it
\* as it was built.
C17_RenderersLeaveModelUnchanged ==
    [][collection_info.called =>
          (collection_info' = collection_info /\ collection' = collection)]_vars

\* The three files are written, and the JSON dump still equals the model.
C17_Witness ==
    /\ pc = "done"
    /\ Len(artifacts) = 3
    /\ Len(collection_info.findings_list) = 2
    /\ SumTotalFindings(collection_info.findings_list) = 4
    /\ ArtifactOf("json").content = JsonDump(collection, collection_info)

\* A list without the repeats of its elements, each at its first place.
RECURSIVE FirstOccurrences(_)
FirstOccurrences(list) ==
    IF list = <<>> THEN <<>>
    ELSE LET front == FirstOccurrences(SubSeq(list, 1, Len(list) - 1))
             last == list[Len(list)]
         IN  IF SeqHas(front, last) THEN front ELSE Append(front, last)

\* The applications in the order get_findings fetched them first.
FetchOrder == FirstOccurrences(Guids)

\* The profiles the PDF file lists, by key, and the profile names the CSV
\* file lists in its first column, in the order they appear.
PdfProfiles ==
    LET summaries == ArtifactOf("pdf").content.summaries
    IN  [i \in 1..Len(summaries) |-> summaries[i].profile]

PdfProfileNames ==
    LET summaries == ArtifactOf("pdf").content.summaries
    IN  [i \in 1..Len(summaries) |-> summaries[i].profileName]

CsvProfileNames ==
    LET data_rows == ArtifactOf("csv").content.data_rows
    IN  FirstOccurrences([i \in 1..Len(data_rows) |-> data_rows[i][1]])

NamesOf(guids) == [i \in 1..Len(guids) |-> AssetName(guids[i])]

\* The applications of a list for which the model holds a finding.
WithFindings(guids) ==
    LET Holds(g) == OrderedGet(collection_info.findings_list, g).total_findings > 0
    IN  SelectSeq(guids, Holds)

\* C18 as stated: the PDF file and the CSV file both list exactly the
\* applications of the model, in the order they were fetched.
C18_BothListEveryApplicationInFetchOrder ==
    /\ Written("pdf") =>
          (PdfProfiles = FetchOrder /\ PdfProfileNames = NamesOf(FetchOrder))
    /\ Written("csv") => CsvProfileNames = NamesOf(FetchOrder)

\* C18, amended: the profile pages of the PDF file list exactly the
\* applications of the model (no summary entry) in the order they were
\* fetched, which is the key order of the model; the CSV file lists, in that
\* same order, the applications that have at least one finding, an
\* application without findings having no row.
C18_SameOrderCsvOnlyWithFindings ==
    /\ collection_info.called => OrderedKeys(collection_info.findings_list) = FetchOrder
    /\ Written("pdf") =>
          (PdfProfiles = FetchOrder /\ PdfProfileNames = NamesOf(FetchOrder))
    /\ Written("csv") => CsvProfileNames = NamesOf(WithFindings(FetchOrder))

\* Both files are written for app-b, fetched first and holding two findings,
\* and app-a, without findings: the PDF file lists app-b, app-a and the CSV
\* file lists app-b alone.
C18_Witness ==
    /\ pc = "done"
    /\ Written("pdf") /\ Written("csv")
    /\ Guids = <<"app-b", "app-a">>
    /\ PdfProfiles = <<"app-b", "app-a">>
    /\ OrderedGet(collection_info.findings_list, "app-a").total_findings = 0
    /\ OrderedGet(collection_info.findings_list, "app-b").total_findings = 2
    /\ CsvProfileNames = <<AssetName("app-b")>>

\* The number of rows of the detail tables the document holds for a profile.
RECURSIVE RenderedRows(_, _)
RenderedRows(tables, profile) ==
    IF tables = <<>> THEN 0
    ELSE (IF Head(tables).profile = profile THEN Len(Head(tables).table.rows) ELSE 0)
         + RenderedRows(Tail(tables), profile)

\* C19: in the PDF file every finding of a known scan type is a row of the
\* detail table of its scan type, whatever the number (one or more) of
\* findings of that scan type: for every profile the number of detail rows is
\* the number of its findings of a known scan type.
C19_EveryKnownFindingHasDetailRow ==
    Written("pdf") =>
        \A k \in 1..Len(collection_info.findings_list) :
            RenderedRows(ArtifactOf("pdf").content.tables,
                         collection_info.findings_list[k][1]) =
                Len(ProfileAt(k).app_findings) - CountUnknown(ProfileAt(k).app_findings)

\* C21: rendering the compliance overview completes without an arithmetic
\* error for every overview of four non-negative counts, the all-zero overview
\* of a collection with zero assets included: once the executive summary page
\* has been asked for, the run has not ended on a ZeroDivisionError.
\* (Violated: with the four counts all 0, total_assets is 0 and the first
\* label divides by it.)
C21_OverviewRendersWithoutArithmeticError ==
    ~(pc = "raised" /\ error = "ZeroDivisionError")

\* The largest count of a severity histogram.
LargestCount(findingsbysev) ==
    CHOOSE c \in {findingsbysev[k] : k \in SevKeys} :
        \A k \in SevKeys : findingsbysev[k] <= c

\* C25: for every severity histogram of non-negative counts the axis of
\* findings_summary_chart is computed without a division by zero and is well
\* formed: roundup(0, m) is 0 for every m, m = 0 included; roundup(x, m) for
\* x > 0 and m > 0 is the smallest multiple of m that is >= x; valueStep is
\* strictly positive, 10 when the largest count is 0; valueMax is strictly
\* greater than the largest count.
C25_ChartAxisWellFormed ==
    /\ pc = "roundup_done" =>
          /\ chart_in.x = 0 => (~chart_out.raised /\ chart_out.value = 0)
          /\ (chart_in.x > 0 /\ chart_in.multipleOf > 0) =>
                /\ ~chart_out.raised
                /\ chart_out.value % chart_in.multipleOf = 0
                /\ chart_out.value >= chart_in.x
                /\ chart_out.value - chart_in.multipleOf < chart_in.x
    /\ pc = "chart_done" =>
          /\ ~chart_out.raised
          /\ chart_out.valueStep > 0
          /\ LargestCount(chart_in) = 0 => chart_out.valueStep = 10
          /\ chart_out.valueMax > LargestCount(chart_in)

\* The chart of a histogram whose six counts are 0: the step of 10 and the
\* upper bound of 35 come out of roundup(0, 10) and roundup(0, 0).
C25_Witness ==
    /\ pc = "chart_done"
    /\ \A k \in SevKeys : chart_in[k] = 0
    /\ ~chart_out.raised
    /\ chart_out.valueStep = 10
    /\ chart_out.valueMax = 35

\* The formats of the files written so far, in the order written, and the
\* formats a run with the given selection is to write, in the order of main.
FormatsWritten == [i \in 1..Len(artifacts) |-> artifacts[i].format]

SelectedInOrder(selected) ==
    (IF SeqHas(selected, "json") THEN <<"json">> ELSE <<>>)
    \o (IF SeqHas(selected, "pdf") THEN <<"pdf">> ELSE <<>>)
    \o (IF SeqHas(selected, "csv") THEN <<"csv">> ELSE <<>>)

IsPrefix(front, list) ==
    Len(front) <= Len(list) /\ front = SubSeq(list, 1, Len(front))

\* C24: the report model is built once, before any file is written, and the
\* files are derived from it: they are written in the order JSON, PDF, CSV,
\* none for a format that was not selected, none twice, and a run that has
\* built the model ends with one file of every selected format.
\* (Violated: a PDF step that raises ends the run before a selected CSV.)
C24_EverySelectedFormatWrittenOnceInOrder ==
    /\ artifacts # <<>> => collection_info.called
    /\ IsPrefix(FormatsWritten, SelectedInOrder(format))
    /\ (pc \in {"done", "raised"} /\ collection_info.called) =>
          FormatsWritten = SelectedInOrder(format)

\* The calls of get_findings seen so far as their all_findings of references:
\* the calls that returned and, inside a call, what it would return now.
CollectionKeys == {"collection_summary", "collection_policy_summary"}

FoldCurrent ==
    OrderedSet(OrderedSet(fold.all_findings, "collection_summary",
                          fold.collection_all_findings_summary),
               "collection_policy_summary", fold.collection_policy_summary)

FoldCalls == IF pc = "fold_loop" THEN Append(fold_returned, FoldCurrent) ELSE fold_returned

FoldApps(call) == {call[i][1] : i \in 1..Len(call)} \ CollectionKeys

\* The references a call holds to collection histograms and to
\* per-application histograms.
CollectionRefs(call) == {OrderedGet(call, k) : k \in CollectionKeys}

AppRefs(call) ==
    UNION {{OrderedGet(call, a).findings_by_severity,
            OrderedGet(call, a).policy_findings_by_severity} : a \in FoldApps(call)}

\* C22: folding has no side effect on its inputs. After any number of folds
\* every per-application histogram still holds the counts
\* get_app_profile_summary_data gave it; each call of get_findings starts its
\* two collection histograms as empty dicts, so a later call returns the same
\* sums as get_findings computed on values; and the all-findings and the
\* policy-only collection histograms are two dicts, different from each other,
\* from those of every other call and from every per-application histogram.
C22_FoldLeavesInputsAndSharesNoDict ==
    \A n \in 1..Len(FoldCalls) :
        LET call == FoldCalls[n]
        IN  /\ \A a \in FoldApps(call) :
                  LET summary == get_app_profile_summary_data(FetchedFindings(platform, a))
                      held == OrderedGet(call, a)
                  IN  /\ heap[held.findings_by_severity] = summary.findings_by_severity
                      /\ heap[held.policy_findings_by_severity]
                             = summary.policy_findings_by_severity
                      /\ held.findings_by_severity # held.policy_findings_by_severity
            /\ (n <= Len(fold_returned)) =>
                  \A k \in CollectionKeys :
                      heap[OrderedGet(call, k)]
                          = OrderedGet(get_findings(platform, Guids).all_findings, k)
            /\ (pc = "fold_loop" /\ idx = 1 /\ n = Len(FoldCalls)) =>
                  \A k \in CollectionKeys : heap[OrderedGet(call, k)] = EmptyDict
            /\ Cardinality(CollectionRefs(call)) = 2
            /\ \A m \in 1..Len(FoldCalls) :
                  /\ CollectionRefs(call) \cap AppRefs(FoldCalls[m]) = {}
                  /\ m # n => CollectionRefs(call) \cap CollectionRefs(FoldCalls[m]) = {}

\* Two calls of get_findings on two applications with findings have returned:
\* the second call's collection histogram counts the two findings of severity
\* 5 once each, in a dict of its own.
C22_Witness ==
    /\ pc = "fold_call"
    /\ Len(fold_returned) = 2
    /\ Len(assets) = 2
    /\ GuidAt(1) # GuidAt(2)
    /\ heap[OrderedGet(fold_returned[2], "collection_summary")]["sev5"] = 2
    /\ heap[OrderedGet(fold_returned[2], "collection_policy_summary")]["sev5"] = 2
    /\ OrderedGet(fold_returned[2], "collection_summary")
           # OrderedGet(fold_returned[1], "collection_summary")

\* The dicts an invocation has created so far.
DictsOf(p) == {calls[p].allfindingsbysev, calls[p].policyfindingsbysev} \ {0}

\* What the aggregate an invocation returned holds, read through its
\* references, against the aggregate of a call of its own.
ReturnedAs(p, alone) ==
    LET info == calls[p].app_summary_info
    IN  /\ ~alone.raised
        /\ heap[info.findings_by_severity]
               = [k \in SevKeys |-> IntValue(alone.findings_by_severity[k])]
        /\ heap[info.policy_findings_by_severity]
               = [k \in SevKeys |-> IntValue(alone.policy_findings_by_severity[k])]
        /\ info.total_findings = alone.total_findings
        /\ info.total_policy_findings = alone.total_policy_findings
        /\ heap[info.app_findings] = ListValue(alone.app_findings)

\* C23: two invocations of get_app_profile_summary_data on findings lists of
\* their own share no state: however their steps interleave, each creates
\* histograms no other invocation holds, and each returns (or raises) what
\* the call returns (or raises) on its list when it runs alone; what it
\* returned stays so while the other invocation goes on.
C23_InterleavedCallsReturnAsAlone ==
    \A p \in Procs :
        LET alone == get_app_profile_summary_data(conc_in[p])
        IN  /\ calls[p].at = "returned" => ReturnedAs(p, alone)
            /\ calls[p].at = "raised" =>
                  (alone.raised /\ alone.error = calls[p].error)
            /\ \A q \in Procs \ {p} : DictsOf(p) \cap DictsOf(q) = {}
            /\ Cardinality(DictsOf(p)) = (IF calls[p].allfindingsbysev = 0 THEN 0 ELSE 1)
                                        + (IF calls[p].policyfindingsbysev = 0 THEN 0 ELSE 1)

\* Both invocations returned, each on two findings, after steps that
\* interleaved: the second created its first histogram between the two of the
\* first.
C23_Witness ==
    /\ \A p \in Procs : calls[p].at = "returned"
    /\ conc_in[1] = <<AggFinding(2, FALSE), AggFinding(5, TRUE)>>
    /\ conc_in[2] = <<AggFinding(5, TRUE), AggFinding(5, TRUE)>>
    /\ calls[1].allfindingsbysev < calls[2].allfindingsbysev
    /\ calls[2].allfindingsbysev < calls[1].policyfindingsbysev
    /\ heap[calls[1].app_summary_info.app_findings].items
           = <<AggFinding(5, TRUE), AggFinding(2, FALSE)>>
    /\ heap[calls[2].app_summary_info.policy_findings_by_severity]["sev5"].count = 2
====
